---- MODULE Spec2Model ----
(***************************************************************************)
(* IMDBuddy: the rating-resolution pipeline (ApiService) of the extension. *)
(*                                                                         *)
(* The repository ships two generations of ApiService:                     *)
(*   "legacy"  - the monolithic content script (src/unnamed/part_000),     *)
(*   "modular" - the shared module (src/dist/safari-extension/core/        *)
(*               api-service.js, identical in src/shared/core/overlay.js   *)
(*               and src/unnamed/part_003).                                *)
(* Both are modelled; the variable `variant` says which one runs.          *)
(* StreamingRatings (src/shared/core/main-extension.js), which scans the    *)
(* page for cards and asks ApiService for their ratings, runs on top of    *)
(* the modular ApiService; its state is the record `ext`.                  *)
(*                                                                         *)
(* Time is counted in ticks of 10 ms: every duration of the source         *)
(* (10, 110, 500, 1000, 2000, 5000 ms, 30 days) is a multiple of 10 ms and *)
(* 30 days in ms does not fit TLC's 32-bit integers.  ms(x) converts.      *)
(* One action is one macrotask of the JavaScript event loop: the code from *)
(* a call or a wake-up to the next real suspension (timer, fetch, storage).*)
(***************************************************************************)
EXTENDS Integers, Sequences, FiniteSets, TLC

ms(x) == x \div 10

\* ---------------------------------------------------------------- bounds
MaxCalls == 2        \* requests in one run of Spec
MaxRetryCalls == 1   \* requests in one run of SpecRetry
MaxBurst == 7        \* requests in one run of SpecBurst
MaxWindowBurst == 11 \* requests in one run of SpecWindow
MaxLive == 6         \* requests in one run of SpecLive
MaxRetries == 2      \* retried remote calls in one run of SpecLive
IdleSteps == 2       \* idle periods in one run of Spec
BurstIdleSteps == 1  \* idle periods in one run of SpecBurst
WindowIdleSteps == 1 \* idle periods in one run of SpecWindow
MaxSlow == 1         \* remote calls of a run that stay in flight while time passes
IdleGap == 2         \* length of one idle period, in ticks
MaxInputCalls == 2   \* requests in one run of SpecInput
MaxCacheCalls == 2   \* requests in one page load of SpecCache
MaxClears == 1       \* clearCache calls in one run of SpecCache
MaxSessions == 2     \* page loads in one run of SpecCache
CacheIdleSteps == 1  \* idle periods in one run of SpecCache
MaxFaultCalls == 2   \* getRating calls that miss in one run of SpecFault
MaxKeyCalls == 2     \* getRating calls that miss in one run of SpecKey
MaxNormLen == 5      \* characters of a string handed to normalize in SpecNorm
MaxSimLen == 4       \* characters of a string handed to getSimilarity in SpecSim
MaxMatchCalls == 1   \* getRating calls that miss in one run of SpecMatch
MaxTitles == 2       \* candidates in data.titles of one remote answer
MaxFaults == 2       \* failures of chrome.storage.local in one run of SpecFault

\* ------------------------------------------------------- BASE_CONFIG etc.
REQUEST_DELAY == ms(110)
MAX_CONCURRENT_REQUESTS == 5
CACHE_MAX_AGE == 30 * 24 * 60 * 60 * ms(1000)
RATE_WINDOW == ms(1000)
RATE_CAP == 9
RATE_BUFFER == ms(10)
QUEUE_RETRY_DELAY == ms(10)
FETCH_TIMEOUT == ms(5000)
BACKOFF_BASE == ms(1000)
MAX_429_RETRIES == 2
NETWORK_RETRY_DELAY == ms(500)
MAX_NETWORK_RETRIES == 1

NULL == "null"
NoType == ""

\* The clock value at which the page is loaded (any value later than 30 days
\* after the epoch; lastRequestTime = 0 is then "long ago").
TimeOrigin == CACHE_MAX_AGE + ms(10000)

VARIABLES
    variant,          \* "legacy" | "modular": which ApiService runs
    now,              \* Date.now(), in ticks
    cache,            \* ApiService.cache: cacheKey -> [data, timestamp]
    requestQueue,     \* ApiService.requestQueue: ids of the queued requests
    activeRequests,   \* ApiService.activeRequests
    lastRequestTime,  \* ApiService.lastRequestTime
    requestTimes,     \* ApiService.requestTimes
    requests,         \* every request object pushed so far, by id
    queueTimers,      \* deadlines of pending setTimeout(processQueue)
    stored,           \* chrome.storage.local[STORAGE_KEY]: the item, if present
    writes,           \* Storage.set calls whose write has not landed yet
    idles,            \* number of idle periods so far
    stalls,           \* number of remote calls that were slow so far
    phase,            \* "boot" (before ApiService.init) | "loading" | "ready"
    ret,              \* what the last getRating call returned at once
    catalog,          \* data.titles of the remote end's 200 answer "titles"
    clears,           \* number of clearCache calls so far
    sessions,         \* number of page loads so far
    faults,           \* number of chrome.storage.local calls that threw so far
    ext,              \* StreamingRatings and the page it runs in (a record)
    args,             \* the arguments of the FuzzyMatcher function under study
    out               \* what the function returned for them, <<>> before the call

vars == <<variant, now, cache, requestQueue, activeRequests, lastRequestTime,
          requestTimes, requests, queueTimers, stored, writes, idles,
          stalls, phase, ret, catalog, clears, sessions, faults, ext, args,
          out>>

\* The variables of ApiService, of StreamingRatings and of their environment.
serviceVars == <<variant, now, cache, requestQueue, activeRequests,
                 lastRequestTime, requestTimes, requests, queueTimers, stored,
                 writes, idles, stalls, phase, ret, catalog, clears, sessions,
                 faults, ext>>

\* ------------------------------------------------------------ environment
\* The title queries the page's cards produce (TitleExtractor output).
Queries == {[title |-> "Up", type |-> NoType], [title |-> "up", type |-> "movie"]}

\* What one remote call can come back with.
\*   match    - 200, a candidate clears the threshold and has a rating > 0
\*   empty    - 200, no candidates
\*   titles   - 200, data.titles is the candidate list in catalog
\*   lowscore - 200, best candidate below MIN_MATCH_SCORE
\*   norating - 200, best candidate has no usable rating
\*   s429, s500, s404 - HTTP status 429 / 500 / 404
\*   neterr   - fetch rejects with a TypeError (transport failure)
Outcomes == {"match", "empty", "lowscore", "norating", "s429", "s500", "s404", "neterr"}

\* String.prototype.toLowerCase on the titles of the model.
toLowerCase(s) ==
    CASE s = "Up" -> "up"
      [] s = "Movie" -> "movie"
      [] s = "tvSeries" -> "tvseries"
      [] s = "Up_movie" -> "up_movie"
      [] OTHER -> s

\* The ResolvedRating built from the accepted candidate for a title.
RatingOf(title) == "rating:" \o toLowerCase(title)

Min(S) == CHOOSE x \in S : \A y \in S : x <= y
Range(f) == {f[i] : i \in DOMAIN f}


\* ------------------------------------------------------------ cache layer
\* A validity check that expires an entry at exactly CACHE_MAX_AGE.
staleAtMaxAge(entry, t) ==
    IF entry.timestamp = 0 THEN FALSE ELSE (t - entry.timestamp) < CACHE_MAX_AGE

\* ApiService.isCacheEntryValid(entry), for an entry that is present.
\* timestamp 0 stands for a missing (falsy) timestamp.
isCacheEntryValid(entry, t) ==
    IF entry.timestamp = 0 THEN FALSE ELSE (t - entry.timestamp) <= CACHE_MAX_AGE

\* cacheKey of getRating, legacy: `${title}${type ? `_${type}` : ''}`
cacheKeyLegacy(title, type) == IF type # NoType THEN title \o "_" \o type ELSE title

\* cacheKey of getRating, modular: `${title.toLowerCase()}_${type || 'unknown'}`
cacheKeyModular(title, type) ==
    toLowerCase(title) \o "_" \o (IF type # NoType THEN type ELSE "unknown")

cacheKeyOf(v, title, type) ==
    IF v = "legacy" THEN cacheKeyLegacy(title, type) ELSE cacheKeyModular(title, type)

\* this.cache[cacheKey] = { data, timestamp: Date.now() }
cachePut(c, key, data, t) ==
    [k \in (DOMAIN c) \cup {key} |->
        IF k = key THEN [data |-> data, timestamp |-> t] ELSE c[k]]

\* delete this.cache[key]
cacheDelete(c, key) == [k \in (DOMAIN c) \ {key} |-> c[k]]

EmptyCache == [k \in {} |-> [data |-> NULL, timestamp |-> 0]]

\* JSON.stringify(data) of a cache map: the text holds, for every key, the
\* data and the timestamp of the entry as they are at the call.
jsonStringify(c) ==
    [json |-> [k \in DOMAIN c |-> <<c[k].data, c[k].timestamp>>]]

\* JSON.parse(text) of such a text.
jsonParse(text) ==
    [k \in DOMAIN text.json |->
        [data |-> text.json[k][1], timestamp |-> text.json[k][2]]]

\* chrome.storage.local without / with an item under STORAGE_KEY.
noItem == [present |-> FALSE, text |-> jsonStringify(EmptyCache)]
itemOf(c) == [present |-> TRUE, text |-> jsonStringify(c)]

\* Storage.get(STORAGE_KEY) when the read succeeds:
\* result[key] ? JSON.parse(result[key]) : {}
storageGet(item) == IF item.present THEN jsonParse(item.text) ELSE EmptyCache

\* Storage.set(STORAGE_KEY, data): JSON.stringify snapshots the map at the
\* call; the write lands later.  waiter is the request that awaits it
\* (0: none, -1: init, -2: clearCache).
storageSet(w, data, waiter) ==
    Append(w, [blob |-> jsonStringify(data), waiter |-> waiter])

\* ------------------------------------------------------ scheduler, legacy
\* The requests of the page are records; requestQueue holds their ids.
\* log lists what the remote calls of the request came back with, in order.
newRequest(title, type, key) ==
    [title |-> title, type |-> type, cacheKey |-> key, pc |-> "queued",
     wake |-> 0, retryCount |-> 0, slow |-> FALSE, result |-> NULL,
     resolved |-> 0, log |-> <<>>]

\* A processRequest whose catch block does not call resolve: a request that
\* ends without a rating leaves its caller pending.
settledOnSuccess(r, value) ==
    [r EXCEPT !.pc = "done", !.wake = 0, !.slow = FALSE,
              !.result = value,
              !.resolved = IF value = "null" THEN @ ELSE @ + 1]

\* resolve(value): the caller's promise is settled.  The queue entry and the
\* frames of processRequest / fetchFromApi are garbage from here on; only
\* the settled value, the number of resolve calls and the retryCount of the
\* last fetchFromApi frame are kept.
settled(r, value) ==
    [r EXCEPT !.pc = "done", !.wake = 0, !.slow = FALSE,
              !.result = value, !.resolved = @ + 1]

\* requestTimes.filter(time => ref - time < 1000)
recentTimes(times, ref) == SelectSeq(times, LAMBDA t : ref - t < RATE_WINDOW)

\* A scheduler that admits one request too many.
slotFreeMut(active) == active <= MAX_CONCURRENT_REQUESTS

\* The loop condition of processQueue (legacy) / the negated early return
\* of processQueue (modular).
slotFree(active) == active < MAX_CONCURRENT_REQUESTS

\* waitForRateLimit (legacy) up to its await: the filtered requestTimes and
\* the time to sleep (0: no sleep, the start is recorded at once).
waitForRateLimitLegacy(times, t) ==
    LET recent == recentTimes(times, t)
    IN  IF Len(recent) >= RATE_CAP
        THEN LET oldestRequest == Min(Range(recent))
                 waitTime == RATE_WINDOW - (t - oldestRequest) + RATE_BUFFER
             IN  IF waitTime > 0
                 THEN [times |-> recent, wait |-> waitTime]
                 ELSE [times |-> Append(recent, t), wait |-> 0]
        ELSE [times |-> Append(recent, t), wait |-> 0]

\* fetchFromApi issues fetch(): the request awaits the response; legacy arms
\* the 5 s abort timer (wake is its deadline), modular has none (wake = 0).
startFetch(r, v, t) ==
    [r EXCEPT !.pc = "fetch",
              !.wake = IF v = "legacy" THEN t + FETCH_TIMEOUT ELSE 0]

\* A scheduler that takes the newest request (requestQueue.pop()).
popIndex(q) == Len(q)

\* The head of the queue, as requestQueue.shift() takes it.
shiftIndex(q) == 1

\* processRequest (legacy) from its call to its first suspension, for the
\* request id just shifted: activeRequests++, then waitForRateLimit.
processRequestLegacy(st, id) ==
    LET w == waitForRateLimitLegacy(st.times, now)
    IN  [st EXCEPT
            !.active = @ + 1,
            !.times = w.times,
            !.reqs = [@ EXCEPT ![id] =
                        IF w.wait > 0
                        THEN [@ EXCEPT !.pc = "rateWait", !.wake = now + w.wait]
                        ELSE startFetch(@, "legacy", now)]]

\* processQueue (legacy): the while loop.
RECURSIVE processQueueLegacy(_)
processQueueLegacy(st) ==
    IF Len(st.queue) > 0 /\ slotFree(st.active)
    THEN LET i == shiftIndex(st.queue)
             id == st.queue[i]
             rest == [j \in 1..(Len(st.queue) - 1) |->
                        IF j < i THEN st.queue[j] ELSE st.queue[j + 1]]
         IN  processQueueLegacy(
                processRequestLegacy(
                    [st EXCEPT !.queue = rest], id))
    ELSE st

\* The scheduler part of the state, as the loop above threads it.
sched == [queue |-> requestQueue, active |-> activeRequests, times |-> requestTimes,
          last |-> lastRequestTime, reqs |-> requests]

setSched(st) ==
    /\ requestQueue' = st.queue
    /\ activeRequests' = st.active
    /\ requestTimes' = st.times
    /\ lastRequestTime' = st.last
    /\ requests' = st.reqs

\* A backoff that does not grow.
flatBackoff(retryCount) == BACKOFF_BASE

\* Math.pow(2, retryCount) * 1000
backoffDelay(retryCount) == (2 ^ retryCount) * BACKOFF_BASE

\* BASE_CONFIG.MIN_MATCH_SCORE (0.7), in hundredths like every similarity.
MIN_MATCH_SCORE == 70

\* A candidate of data.titles.  similarity is the value that
\* getSimilarity(searchTitle, primaryTitle) has for it, in hundredths;
\* aggregateRating is rating.aggregateRating in tenths, NoRating when the
\* candidate has no rating (undefined > 0 is false, as NoRating > 0 is).
NoRating == -1
Candidates ==
    [primaryTitle : {"A", "B"}, titleType : {"movie", "Movie", "series", "tvSeries"},
     similarity : {0, MIN_MATCH_SCORE - 1, MIN_MATCH_SCORE, 100},
     aggregateRating : {NoRating, 0, 81}]

\* bestMatch = null with bestScore = 0, before the loop of findBestMatch.
noMatch ==
    [found |-> FALSE, score |-> 0,
     result |-> [primaryTitle |-> "", titleType |-> "", similarity |-> 0,
                 aggregateRating |-> NoRating]]

\* results.filter(result => resultType === expectedType), with
\* resultType = result.titleType?.toLowerCase()
typeFiltered(results, expectedType) ==
    SelectSeq(results, LAMBDA result : toLowerCase(result.titleType) = expectedType)

\* A loop in which a candidate also replaces the best one so far on a tie.
RECURSIVE bestFromLast(_, _, _)
bestFromLast(filteredResults, i, best) ==
    IF i > Len(filteredResults)
    THEN best
    ELSE LET result == filteredResults[i]
             score == result.similarity
         IN  bestFromLast(filteredResults, i + 1,
                          IF score >= best.score
                          THEN [found |-> TRUE, score |-> score, result |-> result]
                          ELSE best)

\* The loop of findBestMatch from candidate i on: a candidate replaces the
\* best one so far only when its score is greater.
RECURSIVE bestFrom(_, _, _)
bestFrom(filteredResults, i, best) ==
    IF i > Len(filteredResults)
    THEN best
    ELSE LET result == filteredResults[i]
             score == result.similarity
         IN  bestFrom(filteredResults, i + 1,
                      IF score > best.score
                      THEN [found |-> TRUE, score |-> score, result |-> result]
                      ELSE best)

\* A findBestMatch whose type filter is hard: without a candidate of the
\* expected type nothing is considered.
findBestMatchHard(searchTitle, results, expectedType) ==
    LET filteredResults ==
            IF expectedType # NoType
            THEN typeFiltered(results, expectedType)
            ELSE results
        best == bestFrom(filteredResults, 1, noMatch)
    IN  IF best.score >= MIN_MATCH_SCORE THEN best ELSE noMatch

\* FuzzyMatcher.findBestMatch
findBestMatch(searchTitle, results, expectedType) ==
    LET filteredResults ==
            IF expectedType # NoType
               /\ Len(typeFiltered(results, expectedType)) > 0
            THEN typeFiltered(results, expectedType)
            ELSE results
        best == bestFrom(filteredResults, 1, noMatch)
    IN  IF best.score >= MIN_MATCH_SCORE THEN best ELSE noMatch

\* A rating test that lets an aggregate rating of 0 pass.
ratingNotNegative(result) == result.aggregateRating >= 0

\* bestMatch.result.rating?.aggregateRating > 0
usableRating(result) == result.aggregateRating > 0

\* The rating object fetchFromApi (legacy) builds from bestMatch; the model
\* keeps its matchedTitle.
ratingObject(bestMatch) == "rating:" \o bestMatch.result.primaryTitle

\* A fetchFromApi whose 429 path and transport-failure path both allow a
\* third retry.
fetchResultOneMore(o, retryCount, title, expectedType) ==
    IF o \in {"s429", "neterr"} /\ retryCount < 3
    THEN [kind |-> "retry", delay |-> (2 ^ retryCount) * BACKOFF_BASE]
    ELSE IF o = "match"
    THEN [kind |-> "return", value |-> "rating:" \o toLowerCase(title),
          store |-> TRUE]
    ELSE [kind |-> "return", value |-> NULL, store |-> FALSE]

\* What fetchFromApi (legacy) does with the outcome of one remote call made
\* with the given retryCount: sleep and call again, or return a value
\* (store: the value is written to the cache before it is returned).
fetchResultLegacy(o, retryCount, title, expectedType) ==
    CASE o = "s429" ->
            IF retryCount < MAX_429_RETRIES
            THEN [kind |-> "retry", delay |-> backoffDelay(retryCount)]
            ELSE [kind |-> "return", value |-> NULL, store |-> FALSE]
      [] o \in {"s500", "s404"} ->
            [kind |-> "return", value |-> NULL, store |-> FALSE]
      [] o = "match" ->
            [kind |-> "return", value |-> RatingOf(title), store |-> TRUE]
      [] o \in {"empty", "lowscore", "norating"} ->
            [kind |-> "return", value |-> NULL, store |-> FALSE]
      [] o = "titles" ->
            LET bestMatch == findBestMatch(title, catalog, expectedType)
            IN  IF Len(catalog) > 0 /\ bestMatch.found
                   /\ usableRating(bestMatch.result)
                THEN [kind |-> "return", value |-> ratingObject(bestMatch),
                      store |-> TRUE]
                ELSE [kind |-> "return", value |-> NULL, store |-> FALSE]
      [] o = "neterr" ->
            IF retryCount < MAX_NETWORK_RETRIES
            THEN [kind |-> "retry", delay |-> NETWORK_RETRY_DELAY]
            ELSE [kind |-> "return", value |-> NULL, store |-> FALSE]
      [] OTHER -> \* "abort": the 5 s timer aborted the fetch (AbortError)
            [kind |-> "return", value |-> NULL, store |-> FALSE]

\* A finally block that re-arms processQueue only for two or more waiters.
moreThanOneWaiting(q) == Len(q) > 1

\* The condition of the finally block of processRequest (legacy):
\* this.requestQueue.length > 0
queueWaiting(q) == Len(q) > 0

\* A processRequest that releases its slot only after a lookup that brought a
\* rating.
finishLegacyLeak(id, value, o) ==
    /\ requests' = [requests EXCEPT ![id] =
                       [@ EXCEPT !.pc = "done", !.wake = 0, !.slow = FALSE,
                                 !.result = value, !.resolved = @ + 1,
                                 !.log = Append(@, o)]]
    /\ activeRequests' = IF value # "null" THEN activeRequests - 1 ELSE activeRequests
    /\ queueTimers' = IF Len(requestQueue) > 0
                      THEN Append(queueTimers, now + QUEUE_RETRY_DELAY)
                      ELSE queueTimers

\* resolve(value) and the finally block of processRequest (legacy), after
\* the last remote call came back with o.
finishLegacy(id, value, o) ==
    /\ requests' = [requests EXCEPT ![id] = settled([@ EXCEPT !.log = Append(@, o)], value)]
    /\ activeRequests' = activeRequests - 1
    /\ queueTimers' = IF queueWaiting(requestQueue)
                      THEN Append(queueTimers, now + QUEUE_RETRY_DELAY)
                      ELSE queueTimers

\* getRating (legacy), the whole call: cache check, lazy delete, push,
\* processQueue.  cap bounds the number of calls in a run.
getRatingLegacy(title, type, cap) ==
    /\ variant = "legacy"
    /\ phase = "ready"
    /\ LET cacheKey == cacheKeyLegacy(title, type)
       IN  IF cacheKey \in DOMAIN cache /\ isCacheEntryValid(cache[cacheKey], now)
           THEN /\ ret' = [key |-> cacheKey, kind |-> "hit", title |-> title,
                           value |-> cache[cacheKey].data]
                /\ UNCHANGED <<cache, requestQueue, activeRequests, requestTimes,
                   lastRequestTime, requests>>
           ELSE /\ Len(requests) < cap
                /\ ret' = [key |-> cacheKey, kind |-> "queued", title |-> title,
                           value |-> NULL]
                /\ cache' = IF cacheKey \in DOMAIN cache
                            THEN cacheDelete(cache, cacheKey) ELSE cache
                /\ LET id == Len(requests) + 1
                   IN  setSched(processQueueLegacy(
                          [sched EXCEPT
                              !.queue = Append(@, id),
                              !.reqs = Append(@, newRequest(title, type, cacheKey))]))
    /\ UNCHANGED <<variant, ext, args, out, faults, catalog, clears, sessions, now, queueTimers, stored, writes, idles, stalls,
                   phase>>

\* setTimeout(() => this.processQueue(), 10) fires (legacy).
queueTimerLegacy ==
    /\ variant = "legacy"
    /\ Len(queueTimers) > 0
    /\ Head(queueTimers) <= now
    /\ queueTimers' = Tail(queueTimers)
    /\ setSched(processQueueLegacy(sched))
    /\ UNCHANGED <<variant, ext, args, out, faults, catalog, clears, sessions, now, cache, stored, writes, idles, stalls, phase,
                   ret>>

\* The sleep of waitForRateLimit (legacy) ends: the start is recorded and
\* fetchFromApi issues the remote call.
rateWakeLegacy(id) ==
    /\ variant = "legacy"
    /\ id \in DOMAIN requests
    /\ requests[id].pc = "rateWait"
    /\ requests[id].wake <= now
    /\ requestTimes' = Append(requestTimes, now)
    /\ requests' = [requests EXCEPT ![id] = startFetch(@, "legacy", now)]
    /\ UNCHANGED <<variant, ext, args, out, faults, catalog, clears, sessions, now, cache, requestQueue, activeRequests,
                   lastRequestTime, queueTimers, stored, writes, idles,
                   stalls, phase, ret>>

\* The remote call of request id comes back with outcome o (legacy):
\* the rest of fetchFromApi and of processRequest.
respondLegacy(id, o) ==
    /\ variant = "legacy"
    /\ id \in DOMAIN requests
    /\ requests[id].pc = "fetch"
    /\ IF o = "abort" THEN requests[id].wake <= now ELSE now <= requests[id].wake
    /\ LET r == requests[id]
           res == fetchResultLegacy(o, r.retryCount, r.title, r.type)
       IN  IF res.kind = "retry"
           THEN /\ requests' = [requests EXCEPT ![id] =
                                  [@ EXCEPT !.pc = "backoff", !.slow = FALSE,
                                            !.wake = now + res.delay,
                                            !.retryCount = @ + 1,
                                            !.log = Append(@, o)]]
                /\ UNCHANGED <<cache, writes, activeRequests, queueTimers>>
           ELSE /\ cache' = IF res.store
                            THEN cachePut(cache, r.cacheKey, res.value, now)
                            ELSE cache
                /\ writes' = IF res.store
                             THEN storageSet(writes, cache', 0)
                             ELSE writes
                /\ finishLegacy(id, res.value, o)
    /\ UNCHANGED <<variant, ext, args, out, faults, catalog, clears, sessions, now, requestQueue, lastRequestTime, requestTimes,
                   stored, idles, stalls, phase, ret>>

\* The backoff sleep of fetchFromApi ends: the recursive call issues the
\* next remote call (both variants).
backoffWake(id) ==
    /\ id \in DOMAIN requests
    /\ requests[id].pc = "backoff"
    /\ requests[id].wake <= now
    /\ requests' = [requests EXCEPT ![id] = startFetch(@, variant, now)]
    /\ UNCHANGED <<variant, ext, args, out, faults, catalog, clears, sessions, now, cache, requestQueue, activeRequests,
                   lastRequestTime, requestTimes, queueTimers, stored, writes,
                   idles, stalls, phase, ret>>

\* ----------------------------------------------------- scheduler, modular
\* waitForRateLimit (modular) up to its await: the time to sleep (0: none).
waitForRateLimitModular(last, t) ==
    LET timeSinceLastRequest == t - last
    IN  IF timeSinceLastRequest < REQUEST_DELAY
        THEN REQUEST_DELAY - timeSinceLastRequest
        ELSE 0

\* The end of waitForRateLimit (modular): lastRequestTime = Date.now(), the
\* push and the filter of requestTimes; then fetchFromApi issues the call.
recordStartModular(st, id) ==
    [st EXCEPT
        !.last = now,
        !.times = recentTimes(Append(@, now), now),
        !.reqs = [@ EXCEPT ![id] = startFetch(@, "modular", now)]]

\* processQueue (modular) from its call to the first suspension of the
\* processRequest it awaits: at most one request is shifted.
processQueueModular(st) ==
    IF ~slotFree(st.active) \/ Len(st.queue) = 0
    THEN st
    ELSE LET i == shiftIndex(st.queue)
             id == st.queue[i]
             rest == [j \in 1..(Len(st.queue) - 1) |->
                        IF j < i THEN st.queue[j] ELSE st.queue[j + 1]]
             st1 == [st EXCEPT !.queue = rest, !.active = @ + 1]
             waitTime == waitForRateLimitModular(st1.last, now)
         IN  IF waitTime > 0
             THEN [st1 EXCEPT !.reqs = [@ EXCEPT ![id] =
                        [@ EXCEPT !.pc = "rateWait", !.wake = now + waitTime]]]
             ELSE recordStartModular(st1, id)

\* What fetchFromApi (modular) does with the outcome of one remote call:
\* a non-ok status throws `HTTP <status>: ...`, and the catch block retries
\* when the message includes '429' or '500'.
fetchResultModular(o, retryCount, title) ==
    CASE o \in {"s429", "s500"} ->
            IF retryCount < 2
            THEN [kind |-> "retry", delay |-> backoffDelay(retryCount)]
            ELSE [kind |-> "return", value |-> NULL]
      [] o \in {"s404", "neterr"} -> [kind |-> "return", value |-> NULL]
      [] o \in {"empty", "lowscore"} -> [kind |-> "return", value |-> NULL]
      [] o = "match" -> [kind |-> "return", value |-> RatingOf(title)]
      [] OTHER -> \* "norating": score: bestMatch.rating || 'N/A'
            [kind |-> "return", value |-> "rating:N/A"]

\* getRating (modular), the whole call.
getRatingModular(title, type, cap) ==
    /\ variant = "modular"
    /\ phase = "ready"
    /\ LET cacheKey == cacheKeyModular(title, type)
       IN  IF title = ""
           THEN /\ ret' = [key |-> "", kind |-> "rejected", title |-> title,
                           value |-> NULL]
                /\ UNCHANGED <<requestQueue, activeRequests, requestTimes,
                   lastRequestTime, requests>>
           ELSE IF cacheKey \in DOMAIN cache /\ isCacheEntryValid(cache[cacheKey], now)
           THEN /\ ret' = [key |-> cacheKey, kind |-> "hit", title |-> title,
                           value |-> cache[cacheKey].data]
                /\ UNCHANGED <<requestQueue, activeRequests, requestTimes,
                   lastRequestTime, requests>>
           ELSE /\ Len(requests) < cap
                /\ ret' = [key |-> cacheKey, kind |-> "queued", title |-> title,
                           value |-> NULL]
                /\ LET id == Len(requests) + 1
                   IN  setSched(processQueueModular(
                          [sched EXCEPT
                              !.queue = Append(@, id),
                              !.reqs = Append(@, newRequest(title, type, cacheKey))]))
    /\ UNCHANGED <<variant, ext, args, out, faults, catalog, clears, sessions, now, cache, queueTimers, stored, writes, idles,
                   stalls, phase>>

\* setTimeout(() => this.processQueue(), REQUEST_DELAY) fires (modular).
queueTimerModular ==
    /\ variant = "modular"
    /\ Len(queueTimers) > 0
    /\ Head(queueTimers) <= now
    /\ queueTimers' = Tail(queueTimers)
    /\ setSched(processQueueModular(sched))
    /\ UNCHANGED <<variant, ext, args, out, faults, catalog, clears, sessions, now, cache, stored, writes, idles, stalls, phase,
                   ret>>

\* The sleep of waitForRateLimit (modular) ends.
rateWakeModular(id) ==
    /\ variant = "modular"
    /\ id \in DOMAIN requests
    /\ requests[id].pc = "rateWait"
    /\ requests[id].wake <= now
    /\ setSched(recordStartModular(sched, id))
    /\ UNCHANGED <<variant, ext, args, out, faults, catalog, clears, sessions, now, cache, queueTimers, stored, writes, idles,
                   stalls, phase, ret>>

\* The remote call of request id comes back with outcome o (modular): the
\* rest of fetchFromApi, then processRequest caches whatever it returned and
\* awaits saveCache().
respondModular(id, o) ==
    /\ variant = "modular"
    /\ id \in DOMAIN requests
    /\ requests[id].pc = "fetch"
    /\ LET r == requests[id]
           res == fetchResultModular(o, r.retryCount, r.title)
       IN  IF res.kind = "retry"
           THEN /\ requests' = [requests EXCEPT ![id] =
                                  [@ EXCEPT !.pc = "backoff", !.slow = FALSE,
                                            !.wake = now + res.delay,
                                            !.retryCount = @ + 1,
                                            !.log = Append(@, o)]]
                /\ UNCHANGED <<cache, writes>>
           ELSE /\ cache' = cachePut(cache, r.cacheKey, res.value, now)
                /\ writes' = storageSet(writes, cache', id)
                /\ requests' = [requests EXCEPT ![id] =
                                  [@ EXCEPT !.pc = "saving", !.slow = FALSE,
                                            !.result = res.value,
                                            !.log = Append(@, o)]]
    /\ UNCHANGED <<variant, ext, args, out, faults, catalog, clears, sessions, now, requestQueue, activeRequests,
                   lastRequestTime, requestTimes, queueTimers, stored, idles,
                   stalls, phase, ret>>

\* ------------------------------------------------------------ persistence
\* A sweep that removes an entry at exactly CACHE_MAX_AGE.
sweepAtMaxAge(c, t) ==
    LET expired == {k \in DOMAIN c :
                      c[k].timestamp = 0 \/ (t - c[k].timestamp) >= CACHE_MAX_AGE}
    IN  [k \in (DOMAIN c) \ expired |-> c[k]]

\* cleanExpiredEntries: the entries that survive the sweep at time t.
cleanExpiredEntries(c, t) ==
    LET expired == {k \in DOMAIN c :
                      c[k].timestamp = 0 \/ (t - c[k].timestamp) > CACHE_MAX_AGE}
    IN  [k \in (DOMAIN c) \ expired |-> c[k]]

\* An init whose sweep saves the cache whether or not it removed an entry.
apiInitAlwaysSaves ==
    /\ phase = "boot"
    /\ cache' = cleanExpiredEntries(storageGet(stored), now)
    /\ writes' = storageSet(writes, cache', -1)
    /\ phase' = "loading"
    /\ UNCHANGED <<variant, ext, args, out, faults, catalog, clears, sessions, now,
                   requestQueue, activeRequests, lastRequestTime, requestTimes,
                   requests, queueTimers, stored, idles, stalls, ret>>

\* ApiService.init: Storage.get answers, the cache is loaded and swept; when
\* the sweep removed something, init awaits saveCache().
apiInit ==
    /\ phase = "boot"
    /\ cache' = cleanExpiredEntries(storageGet(stored), now)
    /\ IF cache' # storageGet(stored)
       THEN /\ writes' = storageSet(writes, cache', -1)
            /\ phase' = "loading"
       ELSE /\ writes' = writes
            /\ phase' = "ready"
    /\ UNCHANGED <<variant, ext, args, out, faults, catalog, clears, sessions, now, requestQueue, activeRequests,
                   lastRequestTime, requestTimes, requests, queueTimers,
                   stored, idles, stalls, ret>>

\* The oldest pending Storage.set returns to the code awaiting it: init
\* completes, or (modular) processRequest resolves its caller and
\* processQueue's finally block runs; clearCache and the legacy saveCache
\* calls after a response have nothing left to do.
setReturns ==
    /\ writes' = Tail(writes)
    /\ LET id == Head(writes).waiter
       IN  IF id = -1
           THEN /\ phase' = "ready"
                /\ UNCHANGED <<requests, activeRequests, queueTimers>>
           ELSE IF id <= 0
           THEN UNCHANGED <<phase, requests, activeRequests, queueTimers>>
           ELSE /\ requests' = [requests EXCEPT ![id] = settled(@, @.result)]
                /\ activeRequests' = activeRequests - 1
                /\ queueTimers' = Append(queueTimers, now + REQUEST_DELAY)
                /\ UNCHANGED phase

\* chrome.storage.local.set of the oldest pending Storage.set lands, and the
\* code awaiting it goes on: init completes, or (modular) processRequest
\* resolves its caller and processQueue's finally block runs.
storageDone ==
    /\ Len(writes) > 0
    /\ stored' = [present |-> TRUE, text |-> Head(writes).blob]
    /\ setReturns
    /\ UNCHANGED <<variant, ext, args, out, faults, catalog, clears, sessions, now, cache, requestQueue, lastRequestTime,
                   requestTimes, idles, stalls, ret>>

\* Storage.get when chrome.storage.local.get or JSON.parse throws: the catch
\* returns {}, init sweeps the empty cache and completes.
storageGetFails(maxFaults) ==
    /\ phase = "boot"
    /\ faults < maxFaults
    /\ faults' = faults + 1
    /\ cache' = cleanExpiredEntries(EmptyCache, now)
    /\ phase' = "ready"
    /\ UNCHANGED <<variant, ext, args, out, catalog, clears, sessions, now, requestQueue,
                   activeRequests, lastRequestTime, requestTimes, requests,
                   queueTimers, stored, writes, idles, stalls, ret>>

\* A Storage.set without its catch: the failure leaves the awaiting code
\* where it was.
storageSetThrows(maxFaults) ==
    /\ Len(writes) > 0
    /\ faults < maxFaults
    /\ faults' = faults + 1
    /\ writes' = Tail(writes)
    /\ UNCHANGED <<variant, ext, args, out, catalog, clears, sessions, now, cache,
                   requestQueue, activeRequests, lastRequestTime,
                   requestTimes, requests, queueTimers, stored, idles, stalls,
                   phase, ret>>

\* Storage.set when chrome.storage.local.set throws: the catch logs, nothing
\* is stored, and the call returns to the code awaiting it.
storageSetFails(maxFaults) ==
    /\ Len(writes) > 0
    /\ faults < maxFaults
    /\ faults' = faults + 1
    /\ setReturns
    /\ UNCHANGED <<variant, ext, args, out, catalog, clears, sessions, now, cache,
                   requestQueue, lastRequestTime, requestTimes, stored, idles,
                   stalls, ret>>

\* A clearCache that empties the stored item only.
clearStoredOnly(maxClears) ==
    /\ phase = "ready"
    /\ clears < maxClears
    /\ writes' = storageSet(writes, EmptyCache, -2)
    /\ clears' = clears + 1
    /\ UNCHANGED <<variant, ext, args, out, faults, catalog, sessions, now, cache, requestQueue,
                   activeRequests, lastRequestTime, requestTimes, requests,
                   queueTimers, stored, idles, stalls, phase, ret>>

\* ApiService.clearCache up to its await: the cache is emptied and the empty
\* map is handed to Storage.set.
clearCache(maxClears) ==
    /\ phase = "ready"
    /\ clears < maxClears
    /\ cache' = EmptyCache
    /\ writes' = storageSet(writes, EmptyCache, -2)
    /\ clears' = clears + 1
    /\ UNCHANGED <<variant, ext, args, out, faults, catalog, sessions, now, requestQueue,
                   activeRequests, lastRequestTime, requestTimes, requests,
                   queueTimers, stored, idles, stalls, phase, ret>>

\* The page is left and loaded again: the content script starts afresh, with
\* the ApiService fields as declared; chrome.storage.local is what persists.
reload(maxSessions) ==
    /\ phase = "ready"
    /\ sessions < maxSessions
    /\ Len(writes) = 0
    /\ sessions' = sessions + 1
    /\ cache' = EmptyCache
    /\ requestQueue' = <<>>
    /\ activeRequests' = 0
    /\ lastRequestTime' = 0
    /\ requestTimes' = <<>>
    /\ requests' = <<>>
    /\ queueTimers' = <<>>
    /\ phase' = "boot"
    /\ ret' = [key |-> "", kind |-> "none", title |-> "", value |-> NULL]
    /\ UNCHANGED <<variant, ext, args, out, faults, catalog, clears, now, stored, writes, idles,
                   stalls>>

\* ------------------------------------------------------------------- time
\* The deadlines of the pending timers: processQueue timers, rate-limit and
\* backoff sleeps, and (legacy) the abort timers of the calls in flight.
\* The page before StreamingRatings.init: cards is what TitleExtractor
\* would extract from each card element of the document, in document order.
\*   pc                - where StreamingRatings.init stands: "boot",
\*                       "initializing" (awaiting ApiService.init), "running"
\*                       (startObserver was called) or "failed"
\*   overlays          - the cards that hold an .imdb-rating-overlay
\*   processedElements - StreamingRatings.processedElements
\*   extracted, asked  - per card, the TitleExtractor.extract and the
\*                       ApiService.getRating calls made for it so far
\*   awaiting          - per card, the request processCard awaits (0: none)
\*   scans             - the processExistingCards calls that have not returned
\*   observing         - the MutationObserver is installed
\*   timers            - the pending setTimeout calls of StreamingRatings
\*   debounceTimer     - StreamingRatings.debounceTimer (0: null)
\*   lastMutation      - when the observer's callback last ran (0: never)
\*   changes           - DOM changes the page itself made so far
\*   started           - the processExistingCards calls made so far, by caller
bootExtension(page) ==
    [pc |-> "boot", cards |-> page, overlays |-> {}, processedElements |-> {},
     extracted |-> [c \in DOMAIN page |-> 0], asked |-> [c \in DOMAIN page |-> 0],
     awaiting |-> [c \in DOMAIN page |-> 0], scans |-> <<>>, observing |-> FALSE,
     timers |-> {}, debounceTimer |-> 0, nextTimer |-> 1, lastMutation |-> 0,
     changes |-> 0,
     started |-> [src \in {"initial", "delayed", "observer"} |-> 0]]

\* When the timers of StreamingRatings and the batch delays of its scans end.
extDeadlines ==
    {t.at : t \in ext.timers} \cup
    {ext.scans[k].wake : k \in {j \in DOMAIN ext.scans : ext.scans[j].wake > 0}}

deadlines ==
    extDeadlines \cup
    Range(queueTimers) \cup
    {requests[i].wake : i \in {j \in DOMAIN requests :
        \/ requests[j].pc \in {"rateWait", "backoff"}
        \/ requests[j].pc = "fetch" /\ requests[j].wake > 0}}

\* The remote end answers a call within the tick it was issued in, unless
\* the call is slow: then it stays in flight while time passes.  The
\* extension storage lands a write within the tick it was issued in.
stall(id, maxSlow) ==
    /\ stalls < maxSlow
    /\ id \in DOMAIN requests
    /\ requests[id].pc = "fetch"
    /\ ~requests[id].slow
    /\ requests' = [requests EXCEPT ![id] = [@ EXCEPT !.slow = TRUE]]
    /\ stalls' = stalls + 1
    /\ UNCHANGED <<variant, ext, args, out, faults, catalog, clears, sessions, now, cache, requestQueue, activeRequests,
                   lastRequestTime, requestTimes, queueTimers, stored, writes,
                   idles, phase, ret>>

timeMayPass ==
    /\ \A i \in DOMAIN requests : requests[i].pc = "fetch" => requests[i].slow
    /\ Len(writes) = 0

\* Time passes up to the next timer.
tick ==
    /\ timeMayPass
    /\ deadlines # {}
    /\ \A d \in deadlines : d > now
    /\ now' = Min(deadlines)
    /\ UNCHANGED <<variant, ext, args, out, faults, catalog, clears, sessions, cache, requestQueue, activeRequests,
                   lastRequestTime, requestTimes, requests, queueTimers,
                   stored, writes, idles, stalls, phase, ret>>

\* Time passes while no timer is due (the page is idle, or slow calls are
\* in flight): IdleGap ticks, never beyond the next timer.
idle(maxIdle) ==
    /\ timeMayPass
    /\ idles < maxIdle
    /\ \A d \in deadlines : d > now + IdleGap
    /\ now' = now + IdleGap
    /\ idles' = idles + 1
    /\ UNCHANGED <<variant, ext, args, out, faults, catalog, clears, sessions, cache, requestQueue, activeRequests,
                   lastRequestTime, requestTimes, requests, queueTimers,
                   stored, writes, stalls, phase, ret>>

\* ------------------------------------------------------- StreamingRatings
\* The content script of src/shared/core/main-extension.js on top of the
\* modular ApiService.  A card is named by its position in ext.cards.
OBSERVER_DELAY == ms(3000)
DEBOUNCE_DELAY == ms(1000)
BATCH_DELAY == ms(500)
batchSize == 10

\* What ext.cards holds for a card from which TitleExtractor.extract
\* returns null.
NoTitleData == [title |-> "", type |-> NoType]

\* chrome.storage.local holds an item whose JSON text has null for an entry
\* (the model writes <<>> for that null).
nullEntryItem ==
    [present |-> TRUE, text |-> [json |-> [k \in {"up_unknown"} |-> <<>>]]]

\* cleanExpiredEntries reads entry.timestamp of every entry: a null entry
\* makes it throw a TypeError, which ApiService.init rethrows.
sweepThrows(item) ==
    item.present /\ \E k \in DOMAIN item.text.json : item.text.json[k] = <<>>

\* A callback that arms a timer without clearing the pending one.
callbackKeepsTimer(e) ==
    IF ~e.observing
    THEN e
    ELSE [e EXCEPT
            !.timers = @ \cup {[id |-> e.nextTimer, at |-> now + 100,
                                kind |-> "observer"]},
            !.debounceTimer = e.nextTimer,
            !.nextTimer = @ + 1,
            !.lastMutation = now]

\* The callback of the MutationObserver: clearTimeout(this.debounceTimer),
\* then this.debounceTimer = setTimeout(() => processExistingCards(), 1000).
\* The records of one macrotask are delivered in one call.
observerCallback(e) ==
    IF ~e.observing
    THEN e
    ELSE [e EXCEPT
            !.timers = {t \in @ : t.id # e.debounceTimer} \cup
                       {[id |-> e.nextTimer, at |-> now + DEBOUNCE_DELAY,
                         kind |-> "observer"]},
            !.debounceTimer = e.nextTimer,
            !.nextTimer = @ + 1,
            !.lastMutation = now]

\* The end of a macrotask of the extension that started in ext and left e:
\* overlays it appended are DOM mutations, which the observer reports.
delivered(e) ==
    IF e.overlays # ext.overlays THEN observerCallback(e) ELSE e

\* processCard from the answer of ApiService.getRating on:
\* if (rating) Overlay.addTo(element, Overlay.create(rating), ...)
showRating(e, c, rating) ==
    [e EXCEPT !.overlays = IF rating # NULL THEN @ \cup {c} ELSE @,
              !.awaiting[c] = 0]

\* A processBatch that marks a card as processed only once its rating
\* arrived.
hasOverlayOf(e, c) == c \in e.overlays

\* this.processedElements.has(card)
hasProcessed(e, c) == c \in e.processedElements

\* The callback processBatch maps over its cards, for card c, up to the
\* suspension of ApiService.getRating; a cache hit lets processCard go on in
\* the same macrotask.  w holds the scheduler (st), the extension (e) and
\* the cache.
processBatchCard(w, c) ==
    IF hasProcessed(w.e, c)
    THEN w
    ELSE LET e1 == [w.e EXCEPT !.processedElements = @ \cup {c},
                               !.extracted[c] = @ + 1]
             titleData == w.e.cards[c]
             cacheKey == cacheKeyModular(titleData.title, titleData.type)
             e2 == [e1 EXCEPT !.asked[c] = @ + 1]
             id == Len(w.st.reqs) + 1
         IN  IF titleData = NoTitleData
             THEN [w EXCEPT !.e = e1]
             ELSE IF cacheKey \in DOMAIN w.cache
                     /\ isCacheEntryValid(w.cache[cacheKey], now)
             THEN [w EXCEPT !.e = showRating(e2, c, w.cache[cacheKey].data)]
             ELSE [w EXCEPT
                     !.e = [e2 EXCEPT !.awaiting[c] = id],
                     !.st = processQueueModular(
                               [w.st EXCEPT
                                   !.queue = Append(@, id),
                                   !.reqs = Append(@, newRequest(titleData.title,
                                                   titleData.type, cacheKey))])]

\* F applied to the value of x (x is computed once, then handed on).
then(x, F(_)) == CHOOSE r \in {F(v) : v \in {x}} : TRUE

\* processBatch(cardBatch) up to `await Promise.all(promises)`.
RECURSIVE processBatch(_, _)
processBatch(w, cardBatch) ==
    IF cardBatch = <<>>
    THEN w
    ELSE then(processBatchCard(w, Head(cardBatch)),
              LAMBDA w1 : processBatch(w1, Tail(cardBatch)))

\* A processExistingCards that never goes on after a batch it awaited.
afterBatchStuck(sc) == [sc EXCEPT !.waiting = {}, !.wake = 0]

\* processExistingCards after `await this.processBatch(batch)` returned:
\* the 500 ms delay when more cards follow, else the loop ends.
afterBatch(sc) ==
    IF sc.i + batchSize < Len(sc.cards)
    THEN [sc EXCEPT !.waiting = {}, !.wake = now + BATCH_DELAY]
    ELSE [sc EXCEPT !.waiting = {}, !.wake = 0, !.i = Len(sc.cards)]

\* The processExistingCards calls that have not returned.
unfinished(scans) == SelectSeq(scans, LAMBDA sc : sc.i < Len(sc.cards))

\* `await this.processBatch(batch)` of the scan sc: w1 is what the batch
\* made of w; the batch is awaited while a processCard it started awaits its
\* rating.
awaitBatch(w, sc, batch, w1) ==
    LET waiting == {c \in Range(batch) :
                       w1.e.awaiting[c] # 0 /\ w.e.awaiting[c] = 0}
        sc1 == IF waiting # {}
               THEN [sc EXCEPT !.waiting = waiting, !.wake = 0]
               ELSE afterBatch(sc)
    IN  [w1 EXCEPT !.e = [w1.e EXCEPT !.scans = unfinished(Append(@, sc1))]]

\* One iteration of the for loop of processExistingCards, for the scan sc
\* at its index i, up to the next suspension.
scanBatch(w, sc) ==
    LET last == IF sc.i + batchSize < Len(sc.cards)
                THEN sc.i + batchSize ELSE Len(sc.cards)
        batch == SubSeq(sc.cards, sc.i + 1, last)
    IN  then(processBatch(w, batch), LAMBDA w1 : awaitBatch(w, sc, batch, w1))

\* findCards: the card elements without an overlay, in document order.
findCards(e) ==
    SelectSeq([c \in 1..Len(e.cards) |-> c], LAMBDA c : c \notin e.overlays)

\* processExistingCards, called from src ("initial", "delayed" or
\* "observer"), up to its first suspension.
processExistingCards(w, src) ==
    LET cards == findCards(w.e)
        w1 == [w EXCEPT !.e = [w.e EXCEPT !.started[src] = @ + 1]]
    IN  IF cards = <<>>
        THEN w1
        ELSE scanBatch(w1, [cards |-> cards, i |-> 0, waiting |-> {},
                            wake |-> 0, src |-> src])

\* startObserver after its call of processExistingCards: setupObserver and
\* the 3000 ms timer.  The overlays of cache hits are appended in
\* microtasks, after the observer was installed.
observed(w1) ==
    LET e2 == [w1.e EXCEPT
                 !.observing = TRUE,
                 !.timers = @ \cup {[id |-> w1.e.nextTimer,
                                     at |-> now + OBSERVER_DELAY,
                                     kind |-> "delayed"]},
                 !.nextTimer = @ + 1]
    IN  [w1 EXCEPT !.e = then(e2, delivered)]

\* startObserver: the initial scan, then setupObserver and the timer.
startObserver(w) ==
    then(processExistingCards([w EXCEPT !.e = [w.e EXCEPT !.pc = "running"]],
                              "initial"),
         observed)

\* A StreamingRatings.init that calls startObserver without awaiting
\* ApiService.init.
initStartsAtOnce ==
    /\ variant = "modular"
    /\ ext.pc = "boot"
    /\ phase = "boot"
    /\ ~(stored.present /\ \E k \in DOMAIN stored.text.json : stored.text.json[k] = <<>>)
    /\ cache' = cleanExpiredEntries(storageGet(stored), now)
    /\ writes' = IF cache' # storageGet(stored)
                 THEN storageSet(writes, cache', -1) ELSE writes
    /\ phase' = IF cache' # storageGet(stored) THEN "loading" ELSE "ready"
    /\ \E w \in {processExistingCards(
                    [st |-> sched, e |-> [ext EXCEPT !.pc = "running"],
                     cache |-> cache'], "initial")} :
           /\ setSched(w.st)
           /\ ext' = w.e
    /\ UNCHANGED <<variant, now, queueTimers, stored, idles, stalls, ret,
                   catalog, clears, sessions, faults, args, out>>

\* StreamingRatings.init from the answer of chrome.storage.local.get on:
\* ApiService.init loads and sweeps the cache; when the sweep throws, init
\* logs and returns; when it saves, init keeps waiting; else startObserver.
streamingRatingsInit ==
    /\ variant = "modular"
    /\ ext.pc = "boot"
    /\ phase = "boot"
    /\ IF sweepThrows(stored)
       THEN /\ phase' = "failed"
            /\ ext' = [ext EXCEPT !.pc = "failed"]
            /\ UNCHANGED <<cache, writes, requestQueue, activeRequests,
                           requestTimes, lastRequestTime, requests>>
       ELSE /\ cache' = cleanExpiredEntries(storageGet(stored), now)
            /\ IF cache' # storageGet(stored)
               THEN /\ writes' = storageSet(writes, cache', -1)
                    /\ phase' = "loading"
                    /\ ext' = [ext EXCEPT !.pc = "initializing"]
                    /\ UNCHANGED <<requestQueue, activeRequests, requestTimes,
                                   lastRequestTime, requests>>
               ELSE /\ writes' = writes
                    /\ phase' = "ready"
                    /\ \E w \in {startObserver([st |-> sched, e |-> ext,
                                                cache |-> cache'])} :
                           /\ setSched(w.st)
                           /\ ext' = w.e
    /\ UNCHANGED <<variant, now, queueTimers, stored, idles, stalls, ret,
                   catalog, clears, sessions, faults, args, out>>

\* The scans that awaited the processCard of card c go on.
batchSettled(scans, c) ==
    unfinished([k \in DOMAIN scans |->
                  IF c \in scans[k].waiting
                  THEN IF scans[k].waiting = {c}
                       THEN afterBatch(scans[k])
                       ELSE [scans[k] EXCEPT !.waiting = @ \ {c}]
                  ELSE scans[k]])

\* chrome.storage.local.set of the oldest pending Storage.set lands while
\* StreamingRatings runs: the save of init lets init call startObserver;
\* the save of a request lets processRequest resolve, processQueue's finally
\* block run and the processCard that awaited the rating go on.
scanStorageDone ==
    /\ Len(writes) > 0
    /\ stored' = [present |-> TRUE, text |-> Head(writes).blob]
    /\ writes' = Tail(writes)
    /\ LET id == Head(writes).waiter
       IN  IF id = -1
           THEN /\ phase' = "ready"
                /\ \E w \in {startObserver([st |-> sched, e |-> ext,
                                            cache |-> cache])} :
                       /\ setSched(w.st)
                       /\ ext' = w.e
                /\ UNCHANGED queueTimers
           ELSE /\ id > 0
                /\ requests' = [requests EXCEPT ![id] = settled(@, @.result)]
                /\ activeRequests' = activeRequests - 1
                /\ queueTimers' = Append(queueTimers, now + REQUEST_DELAY)
                /\ \E c \in {d \in DOMAIN ext.cards : ext.awaiting[d] = id} :
                       \E e1 \in {showRating(ext, c, requests[id].result)} :
                           ext' = then([e1 EXCEPT !.scans = batchSettled(@, c)],
                                       delivered)
                /\ UNCHANGED <<phase, requestQueue, requestTimes,
                               lastRequestTime>>
    /\ UNCHANGED <<variant, now, cache, idles, stalls, ret, catalog, clears,
                   sessions, faults, args, out>>

\* A timer of StreamingRatings fires: the 3000 ms timer of startObserver or
\* the 1000 ms timer of the observer's callback calls processExistingCards.
scanTimer ==
    \E t \in ext.timers :
        /\ t.at <= now
        /\ \E w \in {processExistingCards(
                        [st |-> sched,
                         e |-> [ext EXCEPT !.timers = @ \ {t}],
                         cache |-> cache], t.kind)} :
               /\ setSched(w.st)
               /\ ext' = delivered(w.e)
        /\ UNCHANGED <<variant, now, cache, queueTimers, stored, writes, idles,
                       stalls, phase, ret, catalog, clears, sessions, faults,
                       args, out>>

\* The 500 ms delay between two batches of a scan ends: the next batch.
batchDelayEnds ==
    \E k \in DOMAIN ext.scans :
        /\ ext.scans[k].wake > 0
        /\ ext.scans[k].wake <= now
        /\ LET sc == [ext.scans[k] EXCEPT !.i = @ + batchSize, !.wake = 0]
               others == [j \in 1..(Len(ext.scans) - 1) |->
                            IF j < k THEN ext.scans[j] ELSE ext.scans[j + 1]]
           IN  \E w \in {scanBatch([st |-> sched,
                                    e |-> [ext EXCEPT !.scans = others],
                                    cache |-> cache], sc)} :
                   /\ setSched(w.st)
                   /\ ext' = delivered(w.e)
        /\ UNCHANGED <<variant, now, cache, queueTimers, stored, writes, idles,
                       stalls, phase, ret, catalog, clears, sessions, faults,
                       args, out>>

\* The page appends a card element to the document.
pageAddsCard(titleData, maxChanges) ==
    /\ ext.changes < maxChanges
    /\ ext' = observerCallback(
                 [ext EXCEPT !.cards = Append(@, titleData),
                             !.extracted = Append(@, 0),
                             !.asked = Append(@, 0),
                             !.awaiting = Append(@, 0),
                             !.changes = @ + 1])
    /\ UNCHANGED <<variant, now, cache, requestQueue, activeRequests,
                   lastRequestTime, requestTimes, requests, queueTimers,
                   stored, writes, idles, stalls, phase, ret, catalog, clears,
                   sessions, faults, args, out>>

\* The page changes the document otherwise (no card comes or goes).
pageChanges(maxChanges) ==
    /\ ext.changes < maxChanges
    /\ ext' = observerCallback([ext EXCEPT !.changes = @ + 1])
    /\ UNCHANGED <<variant, now, cache, requestQueue, activeRequests,
                   lastRequestTime, requestTimes, requests, queueTimers,
                   stored, writes, idles, stalls, phase, ret, catalog, clears,
                   sessions, faults, args, out>>

\* ---------------------------------------------------------- specifications
\* The persisted item found at page load: none, or one entry for the first
\* query that is fresh, exactly 30 days old, older, or without a timestamp.
loadTimestamps == {TimeOrigin, TimeOrigin - CACHE_MAX_AGE,
                   TimeOrigin - CACHE_MAX_AGE - 1, 0}

initialBlobs(v) ==
    {noItem} \cup
    {itemOf(cachePut(EmptyCache, cacheKeyOf(v, "Up", NoType), RatingOf("Up"), ts)) :
        ts \in loadTimestamps}

\* ret before the first getRating call of a page.
noReturn == [key |-> "", kind |-> "none", title |-> "", value |-> NULL]

InitPage(v, blobs, catalogs, inputs, pages) ==
    /\ variant = v
    /\ now = TimeOrigin
    /\ cache = EmptyCache
    /\ requestQueue = <<>>
    /\ activeRequests = 0
    /\ lastRequestTime = 0
    /\ requestTimes = <<>>
    /\ requests = <<>>
    /\ queueTimers = <<>>
    /\ stored \in blobs
    /\ writes = <<>>
    /\ idles = 0
    /\ stalls = 0
    /\ phase = "boot"
    /\ ret = noReturn
    /\ catalog \in catalogs
    /\ clears = 0
    /\ sessions = 1
    /\ faults = 0
    /\ args \in inputs
    /\ out = <<>>
    /\ ext \in {bootExtension(page) : page \in pages}

\* The initial states of the runs of ApiService alone: a page without cards.
InitArgs(v, blobs, catalogs, inputs) ==
    InitPage(v, blobs, catalogs, inputs, {<<>>})

\* The initial states of the runs of ApiService: no FuzzyMatcher function is
\* under study.
InitWith(v, blobs, catalogs) == InitArgs(v, blobs, catalogs, {<<>>})

\* The initial states of the runs whose remote answers are named outcomes.
InitFor(v, blobs) == InitWith(v, blobs, {<<>>})

\* Few requests, every query, every persisted blob; the remote end answers
\* every call (with or without an acceptable match, or 404).  The legacy
\* processQueue timer is armed only when a request completes while another
\* is queued, which takes more than MAX_CONCURRENT_REQUESTS requests: it
\* cannot be pending here.
CacheOutcomes == {"match", "empty", "lowscore", "norating", "s404"}
Init == \E v \in {"legacy", "modular"} : InitFor(v, initialBlobs(v))
Next ==
    \/ \E q \in Queries : getRatingLegacy(q.title, q.type, MaxCalls)
    \/ \E q \in Queries : getRatingModular(q.title, q.type, MaxCalls)
    \/ queueTimerModular
    \/ \E id \in 1..MaxCalls, o \in CacheOutcomes : respondLegacy(id, o)
    \/ \E id \in 1..MaxCalls, o \in CacheOutcomes : respondModular(id, o)
    \/ \E id \in 1..MaxCalls : rateWakeModular(id)
    \/ apiInit
    \/ storageDone
    \/ tick
    \/ idle(IdleSteps)
Spec == Init /\ [][Next]_vars

\* The legacy fetchFromApi in depth, few requests: every remote outcome,
\* retries, slow calls and the 5 s abort.  (No processQueue timer and no
\* rate-limit sleep can be pending with so few requests.)
InitRetry == InitFor("legacy", {noItem})
NextRetry ==
    \/ \E q \in Queries : getRatingLegacy(q.title, q.type, MaxRetryCalls)
    \/ \E id \in 1..MaxRetryCalls, o \in Outcomes \cup {"abort"} : respondLegacy(id, o)
    \/ \E id \in 1..MaxRetryCalls : backoffWake(id)
    \/ \E id \in 1..MaxRetryCalls : stall(id, MaxSlow)
    \/ apiInit
    \/ storageDone
    \/ tick
SpecRetry == InitRetry /\ [][NextRetry]_vars

\* A burst of requests for one title against a remote end that answers
\* every call with a rating, at once; nothing persisted at load.
BurstQueries == {[title |-> "Up", type |-> NoType]}
BurstOutcomes == {"match"}
InitBurst == \E v \in {"legacy", "modular"} : InitFor(v, {noItem})
NextBurst ==
    \/ \E q \in BurstQueries : getRatingLegacy(q.title, q.type, MaxBurst)
    \/ \E q \in BurstQueries : getRatingModular(q.title, q.type, MaxBurst)
    \/ queueTimerLegacy
    \/ queueTimerModular
    \/ \E id \in 1..MaxBurst, o \in BurstOutcomes : respondLegacy(id, o)
    \/ \E id \in 1..MaxBurst, o \in BurstOutcomes : respondModular(id, o)
    \/ \E id \in 1..MaxBurst : rateWakeModular(id)
    \/ apiInit
    \/ storageDone
    \/ tick
    \/ idle(BurstIdleSteps)
SpecBurst == InitBurst /\ [][NextBurst]_vars

\* The legacy scheduler under a long burst: the remote end finds no
\* candidates, and answers at once.
InitWindow == InitFor("legacy", {noItem})
NextWindow ==
    \/ \E q \in BurstQueries : getRatingLegacy(q.title, q.type, MaxWindowBurst)
    \/ queueTimerLegacy
    \/ \E id \in 1..MaxWindowBurst : rateWakeLegacy(id)
    \/ \E id \in 1..MaxWindowBurst : respondLegacy(id, "empty")
    \/ apiInit
    \/ tick
    \/ idle(WindowIdleSteps)
SpecWindow == InitWindow /\ [][NextWindow]_vars

\* Both schedulers under a burst, with fairness: every timer fires, every
\* remote call and every storage write completes.  The remote end finds no
\* candidates or answers 429; at most MaxRetries calls of a run are retried.
retries == LET RECURSIVE sum(_)
               sum(i) == IF i = 0 THEN 0 ELSE requests[i].retryCount + sum(i - 1)
           IN  sum(Len(requests))
LiveOutcomes == {"empty", "s429"}
mayAnswer(id, o) ==
    (o = "s429" /\ id \in DOMAIN requests /\ requests[id].retryCount < 2)
        => retries < MaxRetries
InitLive == \E v \in {"legacy", "modular"} : InitFor(v, {noItem})
NextLive ==
    \/ \E q \in BurstQueries : getRatingLegacy(q.title, q.type, MaxLive)
    \/ \E q \in BurstQueries : getRatingModular(q.title, q.type, MaxLive)
    \/ queueTimerLegacy
    \/ queueTimerModular
    \/ \E id \in 1..MaxLive, o \in LiveOutcomes : mayAnswer(id, o) /\ respondLegacy(id, o)
    \/ \E id \in 1..MaxLive, o \in LiveOutcomes : mayAnswer(id, o) /\ respondModular(id, o)
    \/ \E id \in 1..MaxLive : rateWakeModular(id)
    \/ \E id \in 1..MaxLive : backoffWake(id)
    \/ apiInit
    \/ storageDone
    \/ tick
Fairness ==
    /\ WF_vars(queueTimerLegacy)
    /\ WF_vars(queueTimerModular)
    /\ WF_vars(\E id \in 1..MaxLive, o \in LiveOutcomes : mayAnswer(id, o) /\ respondLegacy(id, o))
    /\ WF_vars(\E id \in 1..MaxLive, o \in LiveOutcomes : mayAnswer(id, o) /\ respondModular(id, o))
    /\ WF_vars(\E id \in 1..MaxLive : rateWakeModular(id))
    /\ WF_vars(\E id \in 1..MaxLive : backoffWake(id))
    /\ WF_vars(apiInit)
    /\ WF_vars(storageDone)
    /\ WF_vars(tick)
SpecLive == InitLive /\ [][NextLive]_vars /\ Fairness

\* The cache over page loads: two keys, items persisted by earlier sessions
\* (fresh, exactly 30 days old, older, without timestamp), clearCache.
cacheItems(v) ==
    {noItem} \cup
    {itemOf(c) : c \in
        {cachePut(EmptyCache, cacheKeyOf(v, "Up", NoType), RatingOf("Up"), ts) :
            ts \in loadTimestamps}
        \cup
        {cachePut(cachePut(EmptyCache, cacheKeyOf(v, "Up", NoType), RatingOf("Up"), ts),
                  cacheKeyOf(v, "up", "movie"), RatingOf("up"), ts2) :
            ts \in loadTimestamps,
            ts2 \in {TimeOrigin - ms(1000), TimeOrigin - CACHE_MAX_AGE - ms(1000)}}}
CacheOutcomes2 == {"match", "empty"}
InitCache == \E v \in {"legacy", "modular"} : InitFor(v, cacheItems(v))
NextCache ==
    \/ \E q \in Queries : getRatingLegacy(q.title, q.type, MaxCacheCalls)
    \/ \E q \in Queries : getRatingModular(q.title, q.type, MaxCacheCalls)
    \/ queueTimerModular
    \/ \E id \in 1..MaxCacheCalls, o \in CacheOutcomes2 : respondLegacy(id, o)
    \/ \E id \in 1..MaxCacheCalls, o \in CacheOutcomes2 : respondModular(id, o)
    \/ \E id \in 1..MaxCacheCalls : rateWakeModular(id)
    \/ apiInit
    \/ storageDone
    \/ clearCache(MaxClears)
    \/ reload(MaxSessions)
    \/ tick
    \/ idle(CacheIdleSteps)
SpecCache == InitCache /\ [][NextCache]_vars

\* Titles as the extractors can hand them to getRating: the text of an
\* empty element, a blank text, a title.
InputQueries == {[title |-> "", type |-> NoType], [title |-> " ", type |-> NoType],
                 [title |-> "Up", type |-> NoType]}
InputOutcomes == {"match", "empty"}
InitInput == \E v \in {"legacy", "modular"} : InitFor(v, {noItem})
NextInput ==
    \/ \E q \in InputQueries : getRatingLegacy(q.title, q.type, MaxInputCalls)
    \/ \E q \in InputQueries : getRatingModular(q.title, q.type, MaxInputCalls)
    \/ queueTimerModular
    \/ \E id \in 1..MaxInputCalls, o \in InputOutcomes : respondLegacy(id, o)
    \/ \E id \in 1..MaxInputCalls, o \in InputOutcomes : respondModular(id, o)
    \/ \E id \in 1..MaxInputCalls : rateWakeModular(id)
    \/ apiInit
    \/ storageDone
    \/ tick
SpecInput == InitInput /\ [][NextInput]_vars

\* ------------------------------------------------------------------ claims
\* The requests that were dequeued and whose caller is not resolved yet.
inFlight == {i \in DOMAIN requests : requests[i].pc \notin {"queued", "done"}}

\* C1: in every reachable state at most MAX_CONCURRENT_REQUESTS requests are
\* in flight: the counter activeRequests never exceeds 5, and it counts
\* exactly the requests that were dequeued and are not resolved yet.
C1_ActiveWithinLimit ==
    /\ activeRequests <= MAX_CONCURRENT_REQUESTS
    /\ Cardinality(inFlight) = activeRequests

\* C1 witness: the limit is reached and a further request has to wait.
C1_Witness ==
    /\ activeRequests = MAX_CONCURRENT_REQUESTS
    /\ Len(requestQueue) > 0

\* The request starts that requestTimes holds in the 1000 ms window that
\* ends with the start recorded at time t.
startsInWindow(t) ==
    {i \in DOMAIN requestTimes :
        requestTimes[i] <= t /\ t - requestTimes[i] < RATE_WINDOW}

\* C2: no trailing 1000 ms window contains more than 9 request starts: of
\* the starts waitForRateLimit has recorded, at most 9 lie in the window
\* that ends with any one of them.
C2_WindowCap ==
    \A k \in DOMAIN requestTimes :
        Cardinality(startsInWindow(requestTimes[k])) <= RATE_CAP

\* C3: any two remote-call starts recorded by waitForRateLimit of the
\* shared module are at least REQUEST_DELAY apart.
C3_MinSpacing ==
    variant = "modular" =>
        \A i, j \in DOMAIN requestTimes :
            i < j => requestTimes[j] - requestTimes[i] >= REQUEST_DELAY

\* C5: at most one request per cache key is queued or in flight.
C5_OnePendingPerKey ==
    \A i, j \in DOMAIN requests :
        (i # j /\ requests[i].pc # "done" /\ requests[j].pc # "done")
            => requests[i].cacheKey # requests[j].cacheKey

\* C6: requests are dequeued in the order they were enqueued (ids are given
\* in enqueue order): no request is still queued while a request enqueued
\* after it has been dequeued, and the queue holds its requests oldest first.
C6_Fifo ==
    /\ \A i, j \in DOMAIN requests :
          (i < j /\ requests[i].pc = "queued") => requests[j].pc = "queued"
    /\ \A m, n \in DOMAIN requestQueue :
          m < n => requestQueue[m] < requestQueue[n]

\* C6 witness: two requests wait in the queue while a request enqueued later
\* than one still in flight has already completed.
C6_Witness ==
    /\ Len(requestQueue) >= 2
    /\ \E i, j \in DOMAIN requests :
          i < j /\ requests[j].pc = "done" /\ requests[i].pc \in {"fetch", "saving"}

\* C7: a getRating call whose key has a cache entry of age <= 30 days
\* returns that entry's data, enqueues nothing, and leaves activeRequests,
\* the cache and the remote-call bookkeeping unchanged.  (ret changes only
\* in getRating; ret'.key is the key of the call.)
C7_CacheHit ==
    [][(/\ ret' # ret
        /\ ret'.key \in DOMAIN cache
        /\ cache[ret'.key].timestamp # 0
        /\ now - cache[ret'.key].timestamp <= CACHE_MAX_AGE)
       => (/\ ret'.kind = "hit"
           /\ ret'.value = cache[ret'.key].data
           /\ UNCHANGED <<cache, requestQueue, activeRequests, requests,
                          requestTimes, lastRequestTime, queueTimers, writes,
                          stored>>)]_vars

\* C7 witness: getRating returned the data of an entry that is exactly
\* 30 days old.
C7_Witness ==
    /\ ret.kind = "hit"
    /\ ret.key \in DOMAIN cache
    /\ now - cache[ret.key].timestamp = CACHE_MAX_AGE
    /\ ret.value = cache[ret.key].data
    /\ ret.value # NULL

\* The step in which a remote call of request i comes back with outcome o.
answered(i, o) ==
    /\ requests[i].pc = "fetch"
    /\ requests'[i].log = Append(requests[i].log, o)

allAre(log, o) == \A k \in DOMAIN log : log[k] = o

\* C8: a remote call that ends a resolution without a rating (no
\* candidates, best score below the threshold, no usable rating, a failed
\* lookup) makes the request return null and writes nothing: the cache, the
\* pending writes and the persisted blob stay as they were.
C8_NoWriteOnFailure ==
    [][\A i \in DOMAIN requests :
        \A o \in {"empty", "lowscore", "norating", "s404"} :
          (answered(i, o) /\ requests'[i].pc # "backoff")
            => (/\ requests'[i].result = NULL
                /\ UNCHANGED <<cache, writes, stored>>)]_vars

\* C9: a 429 answer to the first or second remote call of a request whose
\* calls were all answered 429 so far is followed by a retry after 1000 ms,
\* then 2000 ms; the request is retried at most twice because of 429; a third
\* 429 in a row resolves the request with null; a success after 429s resolves
\* it with the rating.
C9_Retry429 ==
    [][\A i \in DOMAIN requests :
        LET r == requests[i]
            r2 == requests'[i]
        IN  /\ (answered(i, "s429") /\ allAre(r.log, "s429") /\ Len(r.log) < 2)
                => (/\ r2.pc = "backoff"
                    /\ r2.wake = now + (IF Len(r.log) = 0 THEN ms(1000) ELSE ms(2000)))
            /\ (answered(i, "s429") /\ allAre(r.log, "s429") /\ Len(r.log) >= 2)
                => (r2.pc = "done" /\ r2.result = NULL /\ r2.resolved = 1)
            /\ (answered(i, "match") /\ allAre(r.log, "s429"))
                => (r2.pc = "done" /\ r2.result = RatingOf(r.title) /\ r2.resolved = 1)
            /\ Len(r2.log) <= 3]_vars

\* C9 witness: a request was answered 429 three times in a row, the calls
\* were 1000 ms and 2000 ms apart from the answers, and it resolved null.
C9_Witness ==
    \E i \in DOMAIN requests :
        /\ requests[i].log = <<"s429", "s429", "s429">>
        /\ requests[i].pc = "done"
        /\ requests[i].result = NULL
        /\ now >= TimeOrigin + ms(3000)

\* C9 witness of the other case: 429, then a success on the second attempt.
C9_WitnessSuccess ==
    \E i \in DOMAIN requests :
        /\ requests[i].log = <<"s429", "match">>
        /\ requests[i].result = RatingOf(requests[i].title)

\* C10: a network failure (not an abort) of a remote call is retried once
\* after 500 ms, whatever the earlier calls of the request came back with;
\* a network failure of that retry resolves the request with null.
C10_NetworkRetry ==
    [][\A i \in DOMAIN requests :
        LET r == requests[i]
            r2 == requests'[i]
        IN  /\ (answered(i, "neterr") /\ \A k \in DOMAIN r.log : r.log[k] # "neterr")
                => (r2.pc = "backoff" /\ r2.wake = now + ms(500))
            /\ (answered(i, "neterr") /\ \E k \in DOMAIN r.log : r.log[k] = "neterr")
                => (r2.pc = "done" /\ r2.result = NULL)]_vars

\* C4: with every timer firing and every remote call and storage write
\* completing, each request enqueued by getRating is eventually dequeued and
\* its caller resolved, exactly once, with a rating or null: again and again
\* every request enqueued so far is resolved (a resolved request stays so).
C4_EventuallyResolved ==
    []<>(\A id \in DOMAIN requests :
            /\ requests[id].pc = "done"
            /\ requests[id].resolved = 1
            /\ requests[id].result \in {NULL, RatingOf(requests[id].title)})

\* C4 witness: more requests than the scheduler runs at once were enqueued,
\* one of them exhausted its retries, and every caller is resolved.
C4_Witness ==
    /\ Len(requests) > MAX_CONCURRENT_REQUESTS
    /\ \A i \in DOMAIN requests : requests[i].pc = "done" /\ requests[i].resolved = 1
    /\ \E i \in DOMAIN requests : requests[i].log = <<"s429", "s429", "s429">>

\* C11: a remote call that is aborted by its 5 s timer is retried after
\* 500 ms like a network failure (here: on the first call of a request,
\* where no retry has been used up yet), instead of ending the request.
C11_TimeoutRetried ==
    [][\A i \in DOMAIN requests :
        (answered(i, "abort") /\ requests[i].log = <<>>)
            => (/\ requests'[i].pc = "backoff"
                /\ requests'[i].wake = now + ms(500))]_vars

\* A title that is empty or consists of white space only.
isBlank(title) == title \in {"", " "}

\* C12: a getRating call with an empty or blank title returns null at once:
\* nothing is enqueued, no remote call is started, the cache is not written.
C12_BlankTitleRejected ==
    [][(ret' # ret /\ isBlank(ret'.title))
        => (/\ ret'.kind = "rejected"
            /\ ret'.value = NULL
            /\ UNCHANGED <<requestQueue, requests, activeRequests, requestTimes,
                           cache, writes>>)]_vars

\* C13: when init has run the startup sweep, the cache holds exactly the
\* loaded entries that have a timestamp and an age of at most 30 days.
C13_StartupSweep ==
    [][(phase = "boot" /\ phase' # "boot")
        => LET loaded == storageGet(stored)
               valid == {k \in DOMAIN loaded :
                           /\ loaded[k].timestamp # 0
                           /\ now - loaded[k].timestamp <= CACHE_MAX_AGE}
           IN  cache' = [k \in valid |-> loaded[k]]]_vars

\* C13 witness: the sweep has kept an entry that is exactly 30 days old and
\* removed another one (the item in storage still holds it).
C13_Witness ==
    /\ phase = "loading"
    /\ \E k \in DOMAIN cache : now - cache[k].timestamp = CACHE_MAX_AGE
    /\ \E k \in DOMAIN storageGet(stored) : k \notin DOMAIN cache

\* Store failures: the stored item holds fresh entries or is absent, either
\* service generation runs, and any chrome.storage.local call may throw.
faultItems(v) ==
    {noItem,
     itemOf(cachePut(EmptyCache, cacheKeyOf(v, "Up", NoType), RatingOf("Up"),
                     TimeOrigin - 1)),
     itemOf(cachePut(EmptyCache, cacheKeyOf(v, "Up", NoType), RatingOf("Up"),
                     TimeOrigin - CACHE_MAX_AGE - 1))}
FaultOutcomes == {"match", "empty"}
InitFault == \E v \in {"legacy", "modular"} : InitFor(v, faultItems(v))
NextFault ==
    \/ \E q \in Queries : getRatingLegacy(q.title, q.type, MaxFaultCalls)
    \/ \E q \in Queries : getRatingModular(q.title, q.type, MaxFaultCalls)
    \/ queueTimerModular
    \/ \E id \in 1..MaxFaultCalls, o \in FaultOutcomes : respondLegacy(id, o)
    \/ \E id \in 1..MaxFaultCalls, o \in FaultOutcomes : respondModular(id, o)
    \/ \E id \in 1..MaxFaultCalls : rateWakeModular(id)
    \/ apiInit
    \/ storageDone
    \/ storageGetFails(MaxFaults)
    \/ storageSetFails(MaxFaults)
    \/ tick
SpecFault == InitFault /\ [][NextFault]_vars

\* Matching: one legacy lookup, with or without an expected type, whose 200
\* answer carries any list of up to MaxTitles candidates with distinct titles.
Catalogs ==
    {c \in UNION {[1..n -> Candidates] : n \in 0..MaxTitles} :
        \A i, j \in DOMAIN c : c[i].primaryTitle = c[j].primaryTitle => i = j}
\* The types the extractors hand to getRating: none, 'movie', and (Hotstar,
\* for the hint "show") 'tvSeries'.
MatchQueries == Queries \cup {[title |-> "Up", type |-> "tvSeries"]}
InitMatch == InitWith("legacy", {noItem}, Catalogs)
NextMatch ==
    \/ \E q \in MatchQueries : getRatingLegacy(q.title, q.type, MaxMatchCalls)
    \/ \E id \in 1..MaxMatchCalls : respondLegacy(id, "titles")
    \/ apiInit
    \/ storageDone
SpecMatch == InitMatch /\ [][NextMatch]_vars

\* The step in which clearCache is called / in which its Storage.set lands
\* and clearCache completes.
clearCalled == clears' = clears + 1
clearCompletes ==
    /\ Len(writes) > 0
    /\ Head(writes).waiter = -2
    /\ writes' = Tail(writes)

C15_WriteThrough ==
    (phase = "ready" /\ Len(writes) = 0) => storageGet(stored) = cache

\* C16: a getRating that finds an entry for its key older than 30 days does not
\* return the entry's data: the entry is removed from the cache and a fresh
\* lookup is enqueued.
C16_StaleEntryDropped ==
    [][(/\ ret' # ret
        /\ ret'.kind # "none"
        /\ ret'.key \in DOMAIN cache
        /\ cache[ret'.key].timestamp # 0
        /\ now - cache[ret'.key].timestamp > CACHE_MAX_AGE)
        => (/\ ret'.kind = "queued"
            /\ ret'.key \notin DOMAIN cache'
            /\ Len(requests') = Len(requests) + 1
            /\ requests'[Len(requests')].cacheKey = ret'.key)]_vars

\* The requests of this session whose resolution stored a rating under key k.
storedRatings(k) ==
    {requests[i].result : i \in {j \in DOMAIN requests :
        /\ requests[j].pc = "done"
        /\ requests[j].cacheKey = k
        /\ requests[j].result # NULL}}

\* C17: cache round-trip. While clearCache has not been called, a rating that a
\* successful resolution stored under a key is what every later getRating for
\* the key returns (a session lasts far less than 30 days, so the entry's age
\* is within the limit), and it is what the persisted item holds for the key
\* when the session ends and init reloads it.
C17_RoundTrip ==
    [][/\ (ret' # ret /\ ret'.kind # "none" /\ clears = 0)
            => \A v \in storedRatings(ret'.key) :
                  ret'.kind = "hit" /\ ret'.value = v
       /\ (sessions' = sessions + 1 /\ clears = 0)
            => \A k \in {requests[i].cacheKey : i \in DOMAIN requests} :
                  \A v \in storedRatings(k) :
                     /\ k \in DOMAIN storageGet(stored')
                     /\ storageGet(stored')[k].data = v]_vars

\* The step in which a chrome.storage.local call throws.
storeFails == faults' = faults + 1

\* C18: a failure of the persistent store never aborts resolution. When the
\* read fails, init completes with an empty cache. When a write fails, the
\* code awaiting it goes on: init completes, the request whose result was
\* being saved resolves its caller with that result, the entry it stored is
\* still in the cache, and no entry leaves the cache for the rest of the
\* session.
C18_StoreFailureTolerated ==
    [][/\ (storeFails /\ phase = "boot")
            => (cache' = EmptyCache /\ phase' = "ready")
       /\ (storeFails /\ phase # "boot")
            => LET id == Head(writes).waiter
               IN  /\ cache' = cache
                   /\ id = -1 => phase' = "ready"
                   /\ id = 0 =>
                        \E i \in DOMAIN requests' :
                           /\ requests'[i].pc = "done"
                           /\ requests'[i].resolved = 1
                           /\ requests'[i].result # NULL
                           /\ requests'[i].cacheKey \in DOMAIN cache'
                   /\ id > 0 =>
                        /\ requests'[id].pc = "done"
                        /\ requests'[id].resolved = 1
                        /\ requests'[id].result = requests[id].result
                        /\ requests'[id].cacheKey \in DOMAIN cache'
       /\ (faults > 0 /\ phase = "ready" /\ phase' = "ready")
            => DOMAIN cache \subseteq DOMAIN cache']_vars

\* C18 witness: the read failed (a fresh stored entry is not in the cache) and
\* a write failed (a resolved request's rating is in the cache and not in the
\* stored item).
C18_Witness ==
    /\ phase = "ready"
    /\ Len(writes) = 0
    /\ \E k \in DOMAIN storageGet(stored) :
          /\ isCacheEntryValid(storageGet(stored)[k], now)
          /\ k \notin DOMAIN cache
    /\ \E i \in DOMAIN requests :
          /\ requests[i].pc = "done"
          /\ requests[i].resolved = 1
          /\ requests[i].result # NULL
          /\ requests[i].cacheKey \in DOMAIN cache
          /\ cache[requests[i].cacheKey].data = requests[i].result
          /\ requests[i].cacheKey \notin DOMAIN storageGet(stored)

\* The candidates findBestMatch is to consider for expectedType, and the one
\* it is to select: the first of those with the highest similarity.
considered(expectedType) ==
    LET typed == {j \in DOMAIN catalog :
                     toLowerCase(catalog[j].titleType) = expectedType}
    IN  IF expectedType # NoType /\ typed # {} THEN typed ELSE DOMAIN catalog
selected(j, expectedType) ==
    /\ j \in considered(expectedType)
    /\ \A k \in considered(expectedType) :
          \/ catalog[k].similarity < catalog[j].similarity
          \/ (catalog[k].similarity = catalog[j].similarity /\ k >= j)
answeredTitles(i) ==
    requests[i].pc = "done" /\ requests[i].log = <<"titles">>

\* C19: a resolution returns a rating only if the selected candidate's
\* similarity is at least MIN_MATCH_SCORE and its aggregate rating is present
\* and positive, and the rating returned is that candidate's; otherwise, also
\* when the selected candidate clears the threshold without a usable rating,
\* it returns null.
C19_RatingOnlyForGoodMatch ==
    \A i \in DOMAIN requests :
        (answeredTitles(i) /\ requests[i].result # NULL)
            => \E j \in DOMAIN catalog :
                  /\ selected(j, requests[i].type)
                  /\ catalog[j].similarity >= MIN_MATCH_SCORE
                  /\ catalog[j].aggregateRating # NoRating
                  /\ catalog[j].aggregateRating > 0
                  /\ requests[i].result = "rating:" \o catalog[j].primaryTitle

\* C19 witness: the resolution returned null although a candidate clears the
\* threshold and has a rating, because the selected candidate clears the
\* threshold without a usable rating.
C19_Witness ==
    \E i \in DOMAIN requests :
        /\ answeredTitles(i)
        /\ requests[i].result = NULL
        /\ \E j, k \in DOMAIN catalog :
              /\ selected(j, requests[i].type)
              /\ catalog[j].similarity >= MIN_MATCH_SCORE
              /\ catalog[j].aggregateRating = 0
              /\ catalog[k].similarity >= MIN_MATCH_SCORE
              /\ catalog[k].aggregateRating > 0

\* C19 witness of the other case: a rating was returned for a selected
\* candidate whose similarity is exactly MIN_MATCH_SCORE.
C19_WitnessRating ==
    \E i \in DOMAIN requests :
        /\ answeredTitles(i)
        /\ requests[i].result # NULL
        /\ \E j \in DOMAIN catalog :
              /\ selected(j, requests[i].type)
              /\ catalog[j].similarity = MIN_MATCH_SCORE

\* C20: type-filter fallback. When expectedType is given and no candidate has
\* that type, the match is chosen among all candidates: the first candidate
\* with the highest similarity is returned if it clears the threshold (and,
\* for the resolution, has a usable rating).
C20_TypeFilterFallback ==
    \A i \in DOMAIN requests :
        (/\ answeredTitles(i)
         /\ requests[i].type # NoType
         /\ \A j \in DOMAIN catalog :
               toLowerCase(catalog[j].titleType) # requests[i].type)
            => \A j \in DOMAIN catalog :
                  (/\ \A k \in DOMAIN catalog :
                         \/ catalog[k].similarity < catalog[j].similarity
                         \/ (catalog[k].similarity = catalog[j].similarity
                             /\ k >= j)
                   /\ catalog[j].similarity >= MIN_MATCH_SCORE
                   /\ catalog[j].aggregateRating > 0)
                     => requests[i].result = "rating:" \o catalog[j].primaryTitle

\* C20 witness: expectedType "movie", two candidates of type "series", and the
\* rating returned is the second one's, whose similarity is the higher.
C20_Witness ==
    \E i \in DOMAIN requests :
        /\ answeredTitles(i)
        /\ requests[i].type = "movie"
        /\ Len(catalog) = 2
        /\ \A j \in DOMAIN catalog : catalog[j].titleType = "series"
        /\ catalog[2].similarity > catalog[1].similarity
        /\ requests[i].result = "rating:" \o catalog[2].primaryTitle

\* C21: when expectedType is given and some candidate's type equals it
\* ignoring letter case, only the candidates of that type are considered: a
\* returned match has a type equal to expectedType ignoring case.
C21_TypeFilterIgnoresCase ==
    \A i \in DOMAIN requests :
        (/\ answeredTitles(i)
         /\ requests[i].type # NoType
         /\ requests[i].result # NULL
         /\ \E j \in DOMAIN catalog :
               toLowerCase(catalog[j].titleType) = toLowerCase(requests[i].type))
            => \A j \in DOMAIN catalog :
                  requests[i].result = "rating:" \o catalog[j].primaryTitle
                     => toLowerCase(catalog[j].titleType)
                            = toLowerCase(requests[i].type)

\* C22: the match returned is the considered candidate with the highest
\* similarity, and among several of that similarity the first in the list: no
\* considered candidate has a higher similarity than the returned one, and
\* none of equal similarity stands before it.
C22_HighestFirstWins ==
    \A i \in DOMAIN requests :
        (answeredTitles(i) /\ requests[i].result # NULL)
            => \A j \in considered(requests[i].type) :
                  requests[i].result = "rating:" \o catalog[j].primaryTitle
                     => \A k \in considered(requests[i].type) :
                           /\ catalog[k].similarity <= catalog[j].similarity
                           /\ catalog[k].similarity = catalog[j].similarity
                                 => j <= k

\* C22 witness: two considered candidates tie for the highest similarity, both
\* with a usable rating, and the first one's rating is returned.
C22_Witness ==
    \E i \in DOMAIN requests :
        /\ answeredTitles(i)
        /\ Len(catalog) = 2
        /\ considered(requests[i].type) = {1, 2}
        /\ catalog[1].similarity = catalog[2].similarity
        /\ catalog[1].aggregateRating > 0
        /\ catalog[2].aggregateRating > 0
        /\ requests[i].result = "rating:" \o catalog[1].primaryTitle

\* ---------------------------------------------------------------------
\* FuzzyMatcher on strings.  A string is the sequence of its characters; a
\* score is the exact fraction <<numerator, denominator>> of the value the
\* code computes.
\* ---------------------------------------------------------------------
upperCase == {"A", "B"}
whiteSpace == {" ", "\t"}
\* \w of a regular expression: letters, digits and the underscore.
wordChars == {"a", "b", "A", "B", "_"}

\* All strings of at most n characters over an alphabet.
Strings(alphabet, n) == UNION {[1..k -> alphabet] : k \in 0..n}

\* String.prototype.toLowerCase, character by character.
lowerChar(c) == CASE c = "A" -> "a" [] c = "B" -> "b" [] OTHER -> c
strToLowerCase(str) == [i \in DOMAIN str |-> lowerChar(str[i])]

\* replace(/\s+/g, ' '): every run of white space becomes one space.
RECURSIVE dropSpaces(_)
dropSpaces(str) ==
    IF str # <<>> /\ Head(str) \in whiteSpace THEN dropSpaces(Tail(str)) ELSE str
RECURSIVE collapseSpaces(_)
collapseSpaces(str) ==
    IF str = <<>> THEN <<>>
    ELSE IF Head(str) \in whiteSpace
    THEN <<" ">> \o collapseSpaces(dropSpaces(str))
    ELSE <<Head(str)>> \o collapseSpaces(Tail(str))

\* String.prototype.trim
RECURSIVE dropTrailingSpaces(_)
dropTrailingSpaces(str) ==
    IF str # <<>> /\ str[Len(str)] \in whiteSpace
    THEN dropTrailingSpaces(SubSeq(str, 1, Len(str) - 1))
    ELSE str
trim(str) == dropTrailingSpaces(dropSpaces(str))

\* A normalize that trims before it squeezes the runs of white space made by
\* the removal of punctuation.
normalizeTrimFirst(str) ==
    collapseSpaces(
        SelectSeq(trim(strToLowerCase(str)),
                  LAMBDA c : c \in wordChars \/ c \in whiteSpace))

\* FuzzyMatcher.normalize:
\* str.toLowerCase().replace(/[^\w\s]/g, '').replace(/\s+/g, ' ').trim()
normalize(str) ==
    trim(collapseSpaces(
        SelectSeq(strToLowerCase(str),
                  LAMBDA c : c \in wordChars \/ c \in whiteSpace)))

Max2(a, b) == IF a > b THEN a ELSE b
Min2(a, b) == IF a < b THEN a ELSE b

\* Exact fractions, kept in lowest terms.
RECURSIVE gcd(_, _)
gcd(a, b) == IF b = 0 THEN a ELSE gcd(b, a % b)
frac(n, d) == <<n \div gcd(n, d), d \div gcd(n, d)>>
fracEq(x, y) == x[1] * y[2] = y[1] * x[2]
fracAdd(x, y) == frac(x[1] * y[2] + y[1] * x[2], x[2] * y[2])
fracScale(k, x) == frac(k * x[1], x[2])

\* A distance in which a substitution costs 2.
levenshteinSubstTwo(s1, s2) ==
    LET matrix[j \in 0..Len(s2), i \in 0..Len(s1)] ==
            IF j = 0 THEN i
            ELSE IF i = 0 THEN j
            ELSE LET cost == IF s1[i] = s2[j] THEN 0 ELSE 2
                 IN  Min2(Min2(matrix[j - 1, i] + 1, matrix[j, i - 1] + 1),
                          matrix[j - 1, i - 1] + cost)
    IN  matrix[Len(s2), Len(s1)]

\* FuzzyMatcher.levenshteinDistance: matrix[j][i] of the code.
levenshteinDistance(s1, s2) ==
    LET matrix[j \in 0..Len(s2), i \in 0..Len(s1)] ==
            IF j = 0 THEN i
            ELSE IF i = 0 THEN j
            ELSE LET cost == IF s1[i] = s2[j] THEN 0 ELSE 1
                 IN  Min2(Min2(matrix[j - 1, i] + 1, matrix[j, i - 1] + 1),
                          matrix[j - 1, i - 1] + cost)
    IN  matrix[Len(s2), Len(s1)]

\* FuzzyMatcher.levenshteinSimilarity
levenshteinSimilarity(s1, s2) ==
    LET maxLen == Max2(Len(s1), Len(s2))
    IN  IF maxLen = 0 THEN <<1, 1>>
        ELSE <<maxLen - levenshteinDistance(s1, s2), maxLen>>

\* A match window taken from the first string alone.
matchWindowFirst(s1, s2) == (Len(s1) \div 2) - 1

\* Math.floor(Math.max(s1.length, s2.length) / 2) - 1
matchWindow(s1, s2) == (Max2(Len(s1), Len(s2)) \div 2) - 1

\* The first loop of jaroSimilarity from character i of s1 on: m1 and m2 are
\* the positions flagged in s1Matches and s2Matches so far.
RECURSIVE jaroMatches(_, _, _, _, _)
jaroMatches(s1, s2, i, m1, m2) ==
    IF i > Len(s1) THEN [s1Matches |-> m1, s2Matches |-> m2]
    ELSE LET start == Max2(1, i - matchWindow(s1, s2))
             end == Min2(i + matchWindow(s1, s2), Len(s2))
             free == {j \in start..end : j \notin m2 /\ s1[i] = s2[j]}
         IN  IF free = {}
             THEN jaroMatches(s1, s2, i + 1, m1, m2)
             ELSE jaroMatches(s1, s2, i + 1, m1 \cup {i}, m2 \cup {Min(free)})

\* The k-th smallest element of a set of positions.
RECURSIVE nth(_, _)
nth(S, k) == IF k = 1 THEN Min(S) ELSE nth(S \ {Min(S)}, k - 1)

\* FuzzyMatcher.jaroSimilarity
jaroSimilarity(s1, s2) ==
    IF Len(s1) = 0 /\ Len(s2) = 0 THEN <<1, 1>>
    ELSE IF Len(s1) = 0 \/ Len(s2) = 0 THEN <<0, 1>>
    ELSE LET m == jaroMatches(s1, s2, 1, {}, {})
             matches == Cardinality(m.s1Matches)
             transpositions ==
                 Cardinality({k \in 1..matches :
                     s1[nth(m.s1Matches, k)] # s2[nth(m.s2Matches, k)]})
         IN  IF matches = 0 THEN <<0, 1>>
             ELSE frac(2 * matches * matches * Len(s2)
                         + 2 * matches * matches * Len(s1)
                         + (2 * matches - transpositions) * Len(s1) * Len(s2),
                       6 * Len(s1) * Len(s2) * matches)

\* String.prototype.includes
includes(str, part) ==
    \E k \in 0..(Len(str) - Len(part)) : SubSeq(str, k + 1, k + Len(part)) = part

\* FuzzyMatcher.substringScore
substringScore(s1, s2) ==
    LET longer == IF Len(s1) > Len(s2) THEN s1 ELSE s2
        shorter == IF Len(s1) > Len(s2) THEN s2 ELSE s1
        lens == {j - i : i \in 0..Len(shorter), j \in 0..Len(shorter)}
        found == {n \in lens : n > 0 /\ \E i \in 0..(Len(shorter) - n) :
                     includes(longer, SubSeq(shorter, i + 1, i + n))}
        maxLen == IF found = {} THEN 0 ELSE CHOOSE n \in found : \A x \in found : x <= n
    IN  IF includes(longer, shorter) THEN <<8, 10>>
        ELSE <<maxLen, Max2(Len(s1), Len(s2))>>

\* new Set(s.split(' ').filter(w => w.length > 1))
wordsOf(str) ==
    {SubSeq(str, i, j) : <<i, j>> \in
        {p \in (1..Len(str)) \X (1..Len(str)) :
            /\ p[2] - p[1] + 1 > 1
            /\ \A k \in p[1]..p[2] : str[k] # " "
            /\ (p[1] = 1 \/ str[p[1] - 1] = " ")
            /\ (p[2] = Len(str) \/ str[p[2] + 1] = " ")}}

\* FuzzyMatcher.wordOverlapScore
wordOverlapScore(s1, s2) ==
    LET words1 == wordsOf(s1)
        words2 == wordsOf(s2)
    IN  IF words1 = {} /\ words2 = {} THEN <<1, 1>>
        ELSE IF words1 = {} \/ words2 = {} THEN <<0, 1>>
        ELSE <<Cardinality(words1 \cap words2), Cardinality(words1 \cup words2)>>

\* FuzzyMatcher.getSimilarity
getSimilarity(str1, str2) ==
    LET s1 == normalize(str1)
        s2 == normalize(str2)
    IN  IF s1 = s2 THEN <<1, 1>>
        ELSE LET sum == fracAdd(fracAdd(fracScale(3, levenshteinSimilarity(s1, s2)),
                                        fracScale(3, jaroSimilarity(s1, s2))),
                                fracAdd(fracScale(2, substringScore(s1, s2)),
                                        fracScale(2, wordOverlapScore(s1, s2))))
             IN  frac(sum[1], 10 * sum[2])

\* Similarity: getSimilarity is called on every pair of strings of at most
\* MaxSimLen characters, in both orders of the arguments.
SimAlphabet == {"a", "B", " "}
scoresOf(str1, str2) ==
    [similarity |-> getSimilarity(str1, str2),
     levenshtein |-> levenshteinSimilarity(normalize(str1), normalize(str2)),
     jaro |-> jaroSimilarity(normalize(str1), normalize(str2)),
     substring |-> substringScore(normalize(str1), normalize(str2)),
     wordOverlap |-> wordOverlapScore(normalize(str1), normalize(str2))]
callGetSimilarity ==
    /\ out = <<>>
    /\ out' = [ab |-> scoresOf(args[1], args[2]), ba |-> scoresOf(args[2], args[1])]
    /\ UNCHANGED <<serviceVars, args>>
InitSim ==
    InitArgs("legacy", {noItem}, {<<>>},
             Strings(SimAlphabet, MaxSimLen) \X Strings(SimAlphabet, MaxSimLen))
NextSim == callGetSimilarity
SpecSim == InitSim /\ [][NextSim]_vars

\* C24: similarity is symmetric. getSimilarity(a, b) = getSimilarity(b, a),
\* and so is each of the four sub-scores on the normalized strings.
C24_SimilaritySymmetric ==
    out # <<>> =>
        /\ fracEq(out.ab.similarity, out.ba.similarity)
        /\ fracEq(out.ab.levenshtein, out.ba.levenshtein)
        /\ fracEq(out.ab.jaro, out.ba.jaro)
        /\ fracEq(out.ab.substring, out.ba.substring)
        /\ fracEq(out.ab.wordOverlap, out.ba.wordOverlap)

\* C24 witness: two strings of different lengths with a Jaro score strictly
\* between 0 and 1 and a common substring that is not the whole shorter one.
C24_Witness ==
    /\ out # <<>>
    /\ Len(normalize(args[1])) # Len(normalize(args[2]))
    /\ out.ab.jaro[1] > 0
    /\ out.ab.jaro[1] < out.ab.jaro[2]
    /\ out.ab.substring[1] > 0
    /\ ~fracEq(out.ab.substring, <<8, 10>>)
    /\ out.ab.similarity[1] > 0

\* Normalization: normalize is called on every string of at most MaxNormLen
\* characters, on its own result, and on the strings that differ from the
\* argument by one change of letter case, of punctuation or of white space.
NormAlphabet == {"a", "B", " ", "\t", "!", "_"}
punctuation == {"!"}
flipCase(c) ==
    CASE c = "a" -> "A" [] c = "A" -> "a" [] c = "b" -> "B" [] c = "B" -> "b"
      [] OTHER -> c
insertAt(str, k, c) == SubSeq(str, 1, k) \o <<c>> \o SubSeq(str, k + 1, Len(str))
removeAt(str, k) == SubSeq(str, 1, k - 1) \o SubSeq(str, k + 1, Len(str))
variantsOf(str) ==
    {[str EXCEPT ![k] = flipCase(@)] : k \in DOMAIN str}
    \cup {insertAt(str, k, c) : k \in 0..Len(str), c \in punctuation}
    \cup {removeAt(str, k) : k \in {i \in DOMAIN str : str[i] \in punctuation}}
    \cup {insertAt(str, k, c) :
            k \in {i \in 0..Len(str) :
                     \/ i = 0
                     \/ i = Len(str)
                     \/ str[i] \in whiteSpace
                     \/ str[i + 1] \in whiteSpace},
            c \in whiteSpace}
    \cup {[str EXCEPT ![k] = c] :
            k \in {i \in DOMAIN str : str[i] \in whiteSpace}, c \in whiteSpace}
callNormalize ==
    /\ out = <<>>
    /\ out' = [once |-> normalize(args[1]),
               twice |-> normalize(normalize(args[1])),
               variants |-> {normalize(v) : v \in variantsOf(args[1])}]
    /\ UNCHANGED <<serviceVars, args>>
InitNorm ==
    InitArgs("legacy", {noItem}, {<<>>},
             {<<str>> : str \in Strings(NormAlphabet, MaxNormLen)})
NextNorm == callNormalize
SpecNorm == InitNorm /\ [][NextNorm]_vars

\* C25: normalize is idempotent, and strings that differ only in letter case,
\* in punctuation that normalize removes, or in white space at the ends or
\* within a run of white space normalize to the same value.
C25_NormalizeIdempotent ==
    out # <<>> =>
        /\ out.twice = out.once
        /\ \A v \in out.variants : v = out.once

\* C25 witness: a string with an upper-case letter, punctuation and white
\* space at an end, whose normal form is a shorter, non-empty string.
C25_Witness ==
    /\ out # <<>>
    /\ \E i, j, k \in DOMAIN args[1] :
          /\ args[1][i] \in upperCase
          /\ args[1][j] \in punctuation
          /\ args[1][k] \in whiteSpace
          /\ k \in {1, Len(args[1])}
    /\ out.once # <<>>
    /\ Len(out.once) < Len(args[1])

\* Cache keys: two lookups, in either service generation, of titles that
\* differ in case only or that end in a type suffix, with every type.
KeyQueries ==
    [title : {"Up", "up", "Up_movie"}, type : {NoType, "movie", "series"}]
InitKey == \E v \in {"legacy", "modular"} : InitFor(v, {noItem})
NextKey ==
    \/ \E q \in KeyQueries : getRatingLegacy(q.title, q.type, MaxKeyCalls)
    \/ \E q \in KeyQueries : getRatingModular(q.title, q.type, MaxKeyCalls)
    \/ queueTimerModular
    \/ \E id \in 1..MaxKeyCalls : respondLegacy(id, "match")
    \/ \E id \in 1..MaxKeyCalls : respondModular(id, "match")
    \/ \E id \in 1..MaxKeyCalls : rateWakeModular(id)
    \/ apiInit
    \/ storageDone
    \/ tick
SpecKey == InitKey /\ [][NextKey]_vars

\* C23: the cache key is a function of (lowercase(title), type or "unknown").
\* Two lookups whose titles are equal ignoring case and whose types are equal
\* have the same key; two lookups that differ in lowercase title or in type
\* have different keys.
C23_KeyOfTitleAndType ==
    \A i, j \in DOMAIN requests :
        (requests[i].cacheKey = requests[j].cacheKey)
            <=> (/\ toLowerCase(requests[i].title) = toLowerCase(requests[j].title)
                 /\ requests[i].type = requests[j].type)

\* C26: the startup sweep writes to the persistent store if and only if it
\* removed at least one entry; when no loaded entry is expired the persisted
\* item is left untouched and init is complete.
C26_SweepWritesIffRemoved ==
    [][(phase = "boot" /\ phase' # "boot")
        => LET removed == DOMAIN storageGet(stored) \ DOMAIN cache'
           IN  /\ stored' = stored
               /\ removed # {} =>
                     /\ writes' = Append(writes, [blob |-> jsonStringify(cache'),
                                                  waiter |-> -1])
                     /\ phase' = "loading"
               /\ removed = {} => (writes' = writes /\ phase' = "ready")]_vars

\* C26 witness: the init of a second session removed an entry that the first
\* session had kept, and its write of the swept cache is pending.
C26_Witness ==
    /\ phase = "loading"
    /\ sessions = 2
    /\ writes = <<[blob |-> jsonStringify(cache), waiter |-> -1]>>
    /\ DOMAIN storageGet(stored) \ DOMAIN cache # {}

\* C26 witness of the other case: init kept every loaded entry and nothing
\* was written.
C26_WitnessNoWrite ==
    /\ phase = "ready"
    /\ requests = <<>>
    /\ clears = 0
    /\ writes = <<>>
    /\ cache # EmptyCache
    /\ storageGet(stored) = cache

\* C27: a remote answer with a 5xx status is a transient error: the first one
\* a request meets is followed by another remote call after a delay, not by
\* the request degrading to null, and the caller is never rejected.
C27_ServerErrorRetried ==
    [][\A i \in DOMAIN requests :
        (answered(i, "s500") /\ requests[i].log = <<>>)
            => (requests'[i].pc = "backoff" /\ requests'[i].resolved = 0)]_vars

\* The remote calls request i has made so far: the answered ones and the
\* one in flight.
remoteCalls(i) ==
    Len(requests[i].log) + (IF requests[i].pc = "fetch" THEN 1 ELSE 0)

\* C28: for one request fetchFromApi makes at most 3 remote calls, whatever
\* mix of 429 answers and transport failures it meets, because both paths
\* count in one retryCount; after the third call the request has ended with a
\* rating or null.
C28_AtMostThreeCalls ==
    \A i \in DOMAIN requests :
        /\ remoteCalls(i) <= 3
        /\ requests[i].retryCount <= 2
        /\ requests[i].pc \notin {"queued", "rateWait"}
              => remoteCalls(i) =
                    requests[i].retryCount
                    + (IF requests[i].pc = "backoff" THEN 0 ELSE 1)
        /\ Len(requests[i].log) = 3
              => (/\ requests[i].pc = "done"
                  /\ requests[i].resolved = 1
                  /\ requests[i].result \in {NULL, RatingOf(requests[i].title)})

\* C28 witness: a transport failure and two 429 answers, in one request that
\* ended with null after its third call.
C28_Witness ==
    \E i \in DOMAIN requests :
        /\ requests[i].log = <<"neterr", "s429", "s429">>
        /\ requests[i].pc = "done"
        /\ requests[i].result = NULL

\* C28 witness of the other end: the third call brought the rating.
C28_WitnessRating ==
    \E i \in DOMAIN requests :
        /\ requests[i].log = <<"neterr", "s429", "match">>
        /\ requests[i].pc = "done"
        /\ requests[i].result = RatingOf(requests[i].title)

\* The requests that were dequeued and have not finished processing.
processing(reqs) ==
    {i \in DOMAIN reqs : reqs[i].pc \in {"rateWait", "fetch", "backoff", "saving"}}

\* C29: activeRequests is the number of requests that were dequeued and have
\* not finished processing. After every step it is not negative and equals
\* that number; a step changes it by the requests it dequeues minus the
\* requests that finish in it, whether they end with a rating or with null
\* after a failed remote call; and it is 0 when the queue is empty and no
\* request is being processed.
C29_ActiveCounts ==
    [][LET finished == {i \in processing(requests) :
                           i \in DOMAIN requests' /\ requests'[i].pc = "done"}
           dequeued == {i \in processing(requests') :
                           i \notin DOMAIN requests \/ requests[i].pc = "queued"}
       IN  /\ activeRequests' >= 0
           /\ activeRequests' = Cardinality(processing(requests'))
           /\ sessions' = sessions
                 => activeRequests' = activeRequests + Cardinality(dequeued)
                                        - Cardinality(finished)
           /\ Cardinality(finished) <= 1
           /\ (requestQueue' = <<>> /\ processing(requests') = {})
                 => activeRequests' = 0]_vars

\* C29 witness: with both a queued request and requests in process, one of
\* the latter has just ended with null after three 429 answers, and the
\* counter is one below the limit.
C29_Witness ==
    /\ Len(requestQueue) > 0
    /\ activeRequests = MAX_CONCURRENT_REQUESTS - 1
    /\ Cardinality(processing(requests)) = MAX_CONCURRENT_REQUESTS - 1
    /\ \E i \in DOMAIN requests :
          /\ requests[i].pc = "done"
          /\ requests[i].result = NULL
          /\ requests[i].log = <<"s429", "s429", "s429">>

\* C30: the resolve callback of each enqueued request is invoked exactly
\* once. No step invokes it a second time, a request is resolved exactly when
\* its processing has ended, and so the callback has been invoked when the
\* request's slot is released.
C30_ResolvedOnce ==
    [][\A i \in DOMAIN requests' :
        /\ requests'[i].resolved <= 1
        /\ i \in DOMAIN requests
              => requests'[i].resolved \in
                    {requests[i].resolved, requests[i].resolved + 1}
        /\ (requests'[i].pc = "done") <=> (requests'[i].resolved = 1)
        /\ (i \in processing(requests) /\ i \notin processing(requests'))
              => (requests'[i].resolved = 1
                  /\ activeRequests' = activeRequests - 1)]_vars

\* C30 witness: one request has ended on the error path (404) and one with a
\* rating, each resolved once, and both slots are free again.
C30_Witness ==
    /\ activeRequests = 0
    /\ \E i, j \in DOMAIN requests :
          /\ requests[i].log = <<"s404">>
          /\ requests[i].result = NULL
          /\ requests[i].resolved = 1
          /\ requests[j].log = <<"match">>
          /\ requests[j].result # NULL
          /\ requests[j].resolved = 1

\* StreamingRatings on a page: short pages with every persisted item, and
\* pages of more than one batch whose first cards are cache hits.  The page
\* changes a few times; the remote end answers with or without a match, at
\* once or late.
MaxShortPage == 2    \* cards of a short page at load
MaxChanges == 1      \* DOM changes the page makes in one run of SpecScan
MaxScanSlow == 1     \* remote calls of a run of SpecScan that answer late
cardKinds == Queries \cup {NoTitleData}
freshItem == itemOf(cachePut(EmptyCache, cacheKeyModular("Up", NoType),
                             RatingOf("Up"), TimeOrigin))
hitCards == [c \in 1..(batchSize - 1) |-> [title |-> "Up", type |-> NoType]]
shortPages == UNION {[1..n -> cardKinds] : n \in 0..MaxShortPage}
longPages == {hitCards \o <<a, b>> : a \in cardKinds, b \in cardKinds}
scanLoads ==
    {[item |-> b, page |-> p] :
        b \in initialBlobs("modular") \cup {nullEntryItem}, p \in shortPages}
    \cup {[item |-> freshItem, page |-> p] : p \in longPages}
ScanOutcomes == {"match", "empty"}
MaxScanCalls == MaxShortPage + MaxChanges
InitScan ==
    \E load \in scanLoads :
        InitPage("modular", {load.item}, {<<>>}, {<<>>}, {load.page})
NextScan ==
    \/ streamingRatingsInit
    \/ scanStorageDone
    \/ scanTimer
    \/ batchDelayEnds
    \/ \E titleData \in cardKinds : pageAddsCard(titleData, MaxChanges)
    \/ pageChanges(MaxChanges)
    \/ \E id \in 1..MaxScanCalls, o \in ScanOutcomes : respondModular(id, o)
    \/ \E id \in 1..MaxScanCalls : rateWakeModular(id)
    \/ \E id \in 1..MaxScanCalls : stall(id, MaxScanSlow)
    \/ queueTimerModular
    \/ tick
SpecScan == InitScan /\ [][NextScan]_vars

\* SpecScan with the event loop's guarantees: a due timer fires, a remote
\* call is answered or aborted, a storage write lands.  (The page's own
\* changes are bounded, so they cannot starve the others.)
SpecScanLive == InitScan /\ [][NextScan]_vars /\ WF_vars(NextScan)

\* C31: no lost wake-up. Whenever requests are queued and a slot is free, a
\* processQueue call is scheduled by a pending timer: the scheduler is never
\* idle with queued work.
C31_NoLostWakeup ==
    (Len(requestQueue) > 0 /\ activeRequests < MAX_CONCURRENT_REQUESTS)
        => Len(queueTimers) > 0

\* C31 witness: a request finished while another one waited, so a slot is
\* free, the queue is not empty and the timer of the finally block is pending.
C31_Witness ==
    /\ Len(requestQueue) > 0
    /\ activeRequests < MAX_CONCURRENT_REQUESTS
    /\ Len(queueTimers) > 0
    /\ \E i \in DOMAIN requests : requests[i].pc = "done"

\* C32: across all scans, overlapping ones included, every card element
\* leads to at most one title extraction and at most one ApiService.getRating
\* call, and whatever was extracted from is in processedElements.
C32_OncePerCard ==
    \A c \in DOMAIN ext.cards :
        /\ ext.extracted[c] <= 1
        /\ ext.asked[c] <= 1
        /\ ext.extracted[c] = 1 <=> c \in ext.processedElements
        /\ Cardinality({id \in DOMAIN requests :
                           ext.awaiting[c] = id}) <= 1

\* C32 witness: two scans run at once over lists that share a card, the
\* later scan looked up a card of the earlier scan's second batch, and the
\* shared card was looked up once.
C32_Witness ==
    /\ Len(ext.scans) >= 2
    /\ \E c \in DOMAIN ext.cards :
          /\ c \in Range(ext.scans[1].cards) \cap Range(ext.scans[2].cards)
          /\ c \in ext.scans[2].waiting
          /\ ext.asked[c] = 1
    /\ ext.scans[1].waiting # {}

\* The pending timers the observer's callback armed.
observerTimers(e) == {t \in e.timers : t.kind = "observer"}

\* C33: DOM mutations are debounced.  After every step at most one
\* observer-armed timer is pending, it is the one debounceTimer names and it
\* is due 1000 ms after the last mutation; a step in which the observer's
\* callback ran leaves exactly that timer, due 1000 ms from now; and an
\* observer-triggered processExistingCards starts only when 1000 ms have
\* passed since the last mutation.
C33_Debounced ==
    [][/\ Cardinality(observerTimers(ext')) <= 1
       /\ \A t \in observerTimers(ext') :
             /\ t.id = ext'.debounceTimer
             /\ t.at = ext'.lastMutation + DEBOUNCE_DELAY
       /\ ext'.debounceTimer # ext.debounceTimer =>
             /\ ext'.lastMutation = now'
             /\ observerTimers(ext') =
                   {[id |-> ext'.debounceTimer, at |-> now' + DEBOUNCE_DELAY,
                     kind |-> "observer"]}
       /\ ext'.started["observer"] > ext.started["observer"] =>
             /\ ext.lastMutation > 0
             /\ now >= ext.lastMutation + DEBOUNCE_DELAY
             /\ ext'.started["observer"] = ext.started["observer"] + 1]_vars

\* C33 witness: a mutation later than the load replaced a pending observer
\* timer (three timers were armed before: the 3000 ms one and two by the
\* callback), and the observer-triggered scan ran afterwards.
C33_Witness ==
    /\ ext.started["observer"] >= 1
    /\ ext.lastMutation > TimeOrigin
    /\ ext.nextTimer >= 4
    /\ observerTimers(ext) = {}

\* No timer of StreamingRatings is pending, no processExistingCards call is
\* under way and no processCard awaits a rating.
quiet ==
    /\ ext.timers = {}
    /\ ext.scans = <<>>
    /\ \A c \in DOMAIN ext.cards : ext.awaiting[c] = 0

hasActed ==
    \/ \E src \in DOMAIN ext.started : ext.started[src] > 0
    \/ \E c \in DOMAIN ext.cards : ext.extracted[c] > 0 \/ ext.asked[c] > 0
    \/ ext.processedElements # {}
    \/ ext.observing
    \/ ext.timers # {}
    \/ Len(requests) > 0

\* C35: nothing is scanned and no rating is asked for before ApiService.init
\* finished: whenever StreamingRatings has acted, the cache is loaded and
\* swept and the save of the sweep, if any, has landed; and when init
\* failed, StreamingRatings has not acted (failure is final, so it never
\* will).
C35_InitFirst ==
    /\ hasActed =>
          /\ phase = "ready"
          /\ ext.pc = "running"
          /\ \A i \in DOMAIN writes : writes[i].waiter # -1
          /\ \A k \in DOMAIN cache : cache[k].timestamp # 0
    /\ ext.pc = "failed" <=> phase = "failed"
    /\ ext.pc = "failed" => ~hasActed /\ sweepThrows(stored)

\* C35 witness: init swept an expired entry, waited for the save to land
\* and only then scanned the cards that were there and asked for a rating.
C35_Witness ==
    /\ stored.present
    /\ ~sweepThrows(stored)
    /\ storageGet(stored) = EmptyCache
    /\ ext.started["initial"] = 1
    /\ \E c \in DOMAIN ext.cards : ext.asked[c] = 1
    /\ Len(requests) > 0

\* C35, the failing case is reached: init failed on a page with cards, and
\* the page went on changing.
C35_WitnessFailed ==
    /\ ext.pc = "failed"
    /\ Len(ext.cards) > MaxShortPage
    /\ ext.changes = MaxChanges

\* ------------------------------------------- levenshteinDistance, shipped
\* What JavaScript yields where the model has no number: undefined (an
\* array element never assigned) and NaN.
Undefined == -1
NaN == -2

\* x + 1 in JavaScript: undefined + 1 and NaN + 1 are NaN.
plusOne(x) == IF x < 0 THEN NaN ELSE x + 1

\* Math.min(a, b, c): NaN when an argument is NaN.
mathMin(a, b, c) == IF NaN \in {a, b, c} THEN NaN ELSE Min2(Min2(a, b), c)

\* FuzzyMatcher.levenshteinDistance as shipped in the Safari content script.
\* The build drops every line containing `} else {`, so the branch for equal
\* characters runs both assignments and the branch for different characters
\* is gone: matrix[i][j] stays unassigned there.
levenshteinDistanceBuilt(s1, s2) ==
    LET matrix[i \in 0..Len(s2), j \in 0..Len(s1)] ==
            IF j = 0 THEN i
            ELSE IF i = 0 THEN j
            ELSE IF s2[i] = s1[j]
                 THEN mathMin(plusOne(matrix[i - 1, j - 1]),
                              plusOne(matrix[i, j - 1]),
                              plusOne(matrix[i - 1, j]))
                 ELSE Undefined
    IN  matrix[Len(s2), Len(s1)]

\* levenshteinDistance on every pair of strings over two letters of up to
\* MaxLevLen characters: the source, the source with the arguments swapped,
\* and the shipped build.
MaxLevLen == 4       \* characters of a string handed to levenshteinDistance
LevAlphabet == {"a", "b"}
callLevenshteinDistance ==
    /\ out = <<>>
    /\ out' = [source |-> levenshteinDistance(args[1], args[2]),
               swapped |-> levenshteinDistance(args[2], args[1]),
               built |-> levenshteinDistanceBuilt(args[1], args[2])]
    /\ UNCHANGED <<serviceVars, args>>
InitLev ==
    InitArgs("legacy", {noItem}, {<<>>},
             Strings(LevAlphabet, MaxLevLen) \X Strings(LevAlphabet, MaxLevLen))
NextLev == callLevenshteinDistance
SpecLev == InitLev /\ [][NextLev]_vars

\* C36: the levenshteinDistance of the built Safari content script returns,
\* for every pair of strings, what the source implementation returns.
C36_BuildPreserves ==
    out # <<>> => out.built = out.source

\* The classic unit-cost edit distance, by its recursive definition: the
\* least number of insertions, deletions and substitutions turning a into b.
RECURSIVE editDistance(_, _)
editDistance(a, b) ==
    IF a = <<>> THEN Len(b)
    ELSE IF b = <<>> THEN Len(a)
    ELSE Min2(Min2(editDistance(Tail(a), b) + 1, editDistance(a, Tail(b)) + 1),
              editDistance(Tail(a), Tail(b)) + (IF Head(a) = Head(b) THEN 0 ELSE 1))

\* C37: levenshteinDistance(a, b) is the classic unit-cost edit distance; it
\* is 0 for identical strings, the same in both orders of the arguments and
\* at most max(len(a), len(b)), so levenshteinSimilarity lies in [0, 1].
C37_EditDistance ==
    out # <<>> =>
        LET a == args[1]
            b == args[2]
            sim == levenshteinSimilarity(a, b)
        IN  /\ out.source = editDistance(a, b)
            /\ a = b => out.source = 0
            /\ out.source = out.swapped
            /\ out.source >= 0
            /\ out.source <= Max2(Len(a), Len(b))
            /\ 0 <= sim[1] /\ sim[1] <= sim[2] /\ sim[2] > 0

\* C37 witness: the distance of "abab" and "bab" (one deletion) and the
\* distance of two strings without a common letter were computed.
C37_Witness ==
    /\ out # <<>>
    /\ \/ /\ args = << <<"a", "b", "a", "b">>, <<"b", "a", "b">> >>
          /\ out.source = 1
       \/ /\ args = << <<"a", "a">>, <<"b", "b", "b">> >>
          /\ out.source = 3

\* ------------------------------------------------ wordOverlapScore, shared
\* s.split(' ').filter(w => w.length > 1) as an array: the tokens of more
\* than one character, in their order in str, repeated ones included.
wordList(str) ==
    LET spans == {p \in (1..Len(str)) \X (1..Len(str)) :
                    /\ p[2] - p[1] + 1 > 1
                    /\ \A k \in p[1]..p[2] : str[k] # " "
                    /\ (p[1] = 1 \/ str[p[1] - 1] = " ")
                    /\ (p[2] = Len(str) \/ str[p[2] + 1] = " ")}
        nthSpan(n) == CHOOSE p \in spans :
                          Cardinality({q \in spans : q[1] < p[1]}) = n - 1
    IN  [n \in 1..Cardinality(spans) |-> SubSeq(str, nthSpan(n)[1], nthSpan(n)[2])]

\* FuzzyMatcher.wordOverlapScore of the shared module, as shipped in the
\* Safari content script: words1 and words2 are arrays, the intersection is
\* words1 filtered by membership in words2, the union is a Set.
wordOverlapScoreShared(s1, s2) ==
    LET words1 == wordList(s1)
        words2 == wordList(s2)
        intersection == SelectSeq(words1, LAMBDA word : word \in Range(words2))
        union == Range(words1) \cup Range(words2)
    IN  IF Len(words1) = 0 \/ Len(words2) = 0 THEN <<0, 1>>
        ELSE <<Len(intersection), Cardinality(union)>>

\* wordOverlapScore of both generations on every pair of strings of up to
\* MaxWordLen characters over one letter and the space.
MaxWordLen == 6      \* characters of a string handed to wordOverlapScore
WordAlphabet == {"a", " "}
callWordOverlapScore ==
    /\ out = <<>>
    /\ out' = [legacy |-> wordOverlapScore(args[1], args[2]),
               shared |-> wordOverlapScoreShared(args[1], args[2])]
    /\ UNCHANGED <<serviceVars, args>>
InitWords ==
    InitArgs("legacy", {noItem}, {<<>>},
             Strings(WordAlphabet, MaxWordLen) \X Strings(WordAlphabet, MaxWordLen))
NextWords == callWordOverlapScore
SpecWords == InitWords /\ [][NextWords]_vars

\* The Jaccard index of two token sets, with the values the specification
\* gives for empty sets.
jaccard(A, B) ==
    IF A = {} /\ B = {} THEN <<1, 1>>
    ELSE IF A = {} \/ B = {} THEN <<0, 1>>
    ELSE <<Cardinality(A \cap B), Cardinality(A \cup B)>>

\* C38: wordOverlapScore is the Jaccard index of the two sets of
\* space-separated tokens of more than one character, 1 when both sets are
\* empty and 0 when exactly one is; in the monolithic script and in the
\* shared module.
C38_Jaccard ==
    out # <<>> =>
        /\ fracEq(out.legacy, jaccard(wordsOf(args[1]), wordsOf(args[2])))
        /\ fracEq(out.shared, jaccard(wordsOf(args[1]), wordsOf(args[2])))

\* C38 restricted to the monolithic script (part_000).
C38_JaccardLegacy ==
    out # <<>> =>
        fracEq(out.legacy, jaccard(wordsOf(args[1]), wordsOf(args[2])))

\* C38: a pair with a repeated token shared by both strings was scored.
C38_WitnessRepeated ==
    /\ out # <<>>
    /\ args = << <<"a", "a", " ", "a", "a">>, <<"a", "a">> >>
    /\ out.shared = <<2, 1>>
    /\ out.legacy = <<1, 1>>

\* ------------------------------------------------------------ formatVotes
\* Number.prototype.toString of a non-negative integer.
digits == <<"0", "1", "2", "3", "4", "5", "6", "7", "8", "9">>
RECURSIVE toString(_)
toString(n) ==
    IF n < 10 THEN digits[n + 1] ELSE toString(n \div 10) \o digits[(n % 10) + 1]

\* floor(log2(v / d)) for v >= d: the binary exponent of the double v / d.
RECURSIVE exponentOf(_, _)
exponentOf(v, d) == IF v < 2 * d THEN 0 ELSE 1 + exponentOf(v \div 2, d)

\* (x * 2^k) mod d, by doubling.
RECURSIVE timesPowerOfTwoMod(_, _, _)
timesPowerOfTwoMod(x, k, d) ==
    IF k = 0 THEN x % d ELSE timesPowerOfTwoMod((2 * x) % d, k - 1, d)

\* Whether the double v / d is at or above the quotient v / d: the division
\* rounds the 53-bit significand to nearest, so what is cut off,
\* (v * 2^(52 - exponent)) mod d, decides.  (Half of d is never cut off for
\* d = 1000 or 1000000: the remainder is a multiple of 8.)
quotientNotBelow(v, d) ==
    LET cut == timesPowerOfTwoMod(v % d, 52 - exponentOf(v, d), d)
    IN  cut = 0 \/ 2 * cut >= d

\* (v / d).toFixed(1) in tenths, for v >= d: the n for which n / 10 is
\* closest to the double v / d, the larger n when two are equally close.  A
\* quotient half-way between two tenths goes where the division's rounding
\* error puts the double.
tenths(v, d) ==
    LET n == (10 * v) \div d
        r == (10 * v) % d
    IN  IF 2 * r < d THEN n
        ELSE IF 2 * r > d THEN n + 1
        ELSE IF quotientNotBelow(v, d) THEN n + 1 ELSE n

\* toFixed(1) as a string.
toFixed(v, d) ==
    toString(tenths(v, d) \div 10) \o "." \o toString(tenths(v, d) % 10)

\* A formatVotes whose thresholds are exclusive.
formatVotesExclusive(votes) ==
    IF votes > 1000000 THEN toFixed(votes, 1000000) \o "M"
    ELSE IF votes > 1000 THEN toFixed(votes, 1000) \o "K"
    ELSE toString(votes)

\* ApiService.formatVotes
formatVotes(votes) ==
    IF votes >= 1000000 THEN toFixed(votes, 1000000) \o "M"
    ELSE IF votes >= 1000 THEN toFixed(votes, 1000) \o "K"
    ELSE toString(votes)

\* formatVotes on the vote counts up to MaxLowVotes, on those within
\* VoteWindow of 1,000,000 and on the multiples of 50,000 up to
\* MaxVoteSteps * 50,000.
MaxLowVotes == 2500  \* every vote count up to here is formatted
VoteWindow == 150    \* vote counts this close to 1,000,000 are formatted
MaxVoteSteps == 60   \* multiples of 50,000 that are formatted
voteCounts ==
    (0..MaxLowVotes)
    \cup ((1000000 - VoteWindow)..(1000000 + VoteWindow))
    \cup {50000 * k : k \in 1..MaxVoteSteps}
callFormatVotes ==
    /\ out = <<>>
    /\ out' = [text |-> formatVotes(args[1])]
    /\ UNCHANGED <<serviceVars, args>>
InitVotes == InitArgs("legacy", {noItem}, {<<>>}, {<<v>> : v \in voteCounts})
NextVotes == callFormatVotes
SpecVotes == InitVotes /\ [][NextVotes]_vars

\* text is unit-th parts of v written to one decimal: n / 10 for an n with
\* |n / 10 - v / unit| <= 1 / 20.
toOneDecimal(text, v, unit) ==
    \E n \in {(10 * v) \div unit, ((10 * v) \div unit) + 1} :
        /\ 2 * (10 * v - n * unit) <= unit
        /\ 2 * (n * unit - 10 * v) <= unit
        /\ text = toString(n \div 10) \o "." \o toString(n % 10)

\* C39: formatVotes follows the suffixing rule: from 1,000,000 on, the
\* millions to one decimal and "M" (1,200,000 gives "1.2M"); from 1,000 to
\* 999,999 the thousands to one decimal and "K"; below 1,000 the integer.
C39_FormatVotes ==
    out # <<>> =>
        LET v == args[1]
        IN  /\ v >= 1000000 =>
                 \E t \in {toFixed(v, 1000000)} :
                    out.text = t \o "M" /\ toOneDecimal(t, v, 1000000)
            /\ v >= 1000 /\ v < 1000000 =>
                 \E t \in {toFixed(v, 1000)} :
                    out.text = t \o "K" /\ toOneDecimal(t, v, 1000)
            /\ v < 1000 => out.text = toString(v)
            /\ v = 1200000 => out.text = "1.2M"
            /\ v = 1000 => out.text = "1.0K"
            /\ v = 999 => out.text = "999"

\* C39 witness: 1,200,000 was formatted as "1.2M".
C39_Witness ==
    /\ out # <<>>
    /\ args[1] = 1200000
    /\ out.text = "1.2M"

\* C39, the thresholds and the half-way quotients are reached: 1,000,000
\* gives "1.0M", 999,950 gives "1000.0K", 1,150 gives "1.1K" and 1,250
\* gives "1.3K".
C39_WitnessEdges ==
    /\ out # <<>>
    /\ \/ args[1] = 1000000 /\ out.text = "1.0M"
       \/ args[1] = 999950 /\ out.text = "1000.0K"
       \/ args[1] = 1150 /\ out.text = "1.1K"
       \/ args[1] = 1250 /\ out.text = "1.3K"

====
